---- MODULE Spec2Model ----
(***************************************************************************)
(* Verification model of the datafuse execution core:                      *)
(*   - the hash grouping kernel (DataBlock::group_by_get_indices,          *)
(*     group_by, group_by_version) of data_block_group_by.rs,              *)
(*   - the comparison kernels (ArrayCompare) of arrays/comparison.rs,      *)
(*   - the filter kernels (DataArrayFilter) of data_array_filter.rs,       *)
(*   - the null/constant evaluation adapter of function2_adapter.rs,       *)
(*   - the function registry of function_factory.rs and its callers.       *)
(* Each subsystem has its own specification over the shared variables;     *)
(* a specification leaves the other subsystem's variables at rest.         *)
(***************************************************************************)
EXTENDS Integers, Sequences, FiniteSets, TLC

VARIABLES
    \* ---- grouping kernel, one entry per worker thread ----
    block,          \* worker -> the DataBlock it owns: a sequence of rows [A, S]
    column_names,   \* worker -> the group-by column names it was called with
    fn,             \* worker -> the kernel entry point it runs
    pc,             \* worker -> position inside the kernel
    row,            \* worker -> loop variable `row` (0-based, as in the code)
    group_key,      \* worker -> the reused key buffer `group_key`
    group_indices,  \* worker -> GroupIndicesTable / VecGroupTable under construction
    group_blocks,   \* worker -> GroupBlocksTable / VecGroupBlockTable being pushed
    \* ---- comparison kernels ----
    cmp,            \* the call in flight: its operands, operator and result
    \* ---- filter kernels ----
    flt,            \* the filter call in flight: its columns, predicate and result
    \* ---- null/constant evaluation adapter ----
    adp,            \* the evaluation in flight: function, columns and result
    \* ---- function registry and the threads calling it ----
    once,           \* FACTORY's lazy_static cell: its state, how often the initializer ran
    registry,       \* the IndexMap behind FACTORY: entries <<name, constructor>> in order
    rwlock,         \* the RwLock around the map: its writer and its readers
    thr,            \* thread -> the call it is in: position, operation, name, result
    \* ---- scalar functions: construction and evaluation ----
    fnc,            \* the function call in flight: constructor, fields, columns, result
    \* ---- plan expressions and their rewriting ----
    rex             \* the expression call in flight: operation, operands, result

gvars == <<block, column_names, fn, pc, row, group_key, group_indices, group_blocks>>
fvars == <<once, registry, rwlock, thr>>
vars == <<block, column_names, fn, pc, row, group_key, group_indices, group_blocks, cmp, flt,
          adp, once, registry, rwlock, thr, fnc, rex>>
\* What a comparison call leaves alone, what a filter call does, what an
\* adapter evaluation does, and what a call of the registry does.
cmpRest == <<gvars, flt, adp, fvars, fnc, rex>>
fltRest == <<gvars, cmp, adp, fvars, fnc, rex>>
adpRest == <<gvars, cmp, flt, fvars, fnc, rex>>
facRest == <<gvars, cmp, flt, adp, fnc, rex>>
fncRest == <<gvars, cmp, flt, adp, fvars, rex>>
rexRest == <<gvars, cmp, flt, adp, fvars, fnc>>

(***************************************************************************)
(* Values.  An Option<T> is a sequence of length 0 (None, the SQL NULL) or *)
(* 1 (Some(v)).  A string is the sequence of its bytes.                    *)
(***************************************************************************)
None == <<>>
Some(v) == <<v>>
IsNull(o) == Len(o) = 0
Unwrap(o) == o[1]

RECURSIVE SeqOfN(_, _)
\* Vec with n copies of v (vec![v; n], DFBooleanArray::full).
SeqOfN(v, n) == IF n = 0 THEN <<>> ELSE <<v>> \o SeqOfN(v, n - 1)

\* All sequences over S of length 0..n.
SeqsUpTo(S, n) == UNION {[1..k -> S] : k \in 0..n}

Min(a, b) == IF a < b THEN a ELSE b
Max(a, b) == IF a > b THEN a ELSE b

(***************************************************************************)
(* Bounds of the model.                                                    *)
(***************************************************************************)
MaxRows == 3        \* rows of a block in the single-worker specification
MaxMergeRows == 2   \* rows of each block in the two-worker specification
HashBits == 2       \* width of the combined hash, scaled down from 64 bits

(***************************************************************************)
(* The blocks.  A block has an integer column A (UInt8) and a Utf8 column  *)
(* S, both nullable.                                                       *)
(***************************************************************************)
STR_abcde == <<97, 98, 99, 100, 101>>
STR_abcdf == <<97, 98, 99, 100, 102>>
STR_x == <<120>>

IntValues == {None, Some(0), Some(1)}
StrValues == {None, Some(STR_abcde), Some(STR_abcdf)}
Rows == [A : IntValues, S : StrValues]
MergeRows == [A : {None, Some(0)}, S : {None, Some(STR_x)}]

\* The block of the documentation of group_by_get_indices: A = [1,2,3,4,5],
\* grouped by A % 3, i.e. the group column holds [1,2,0,1,2].
ExampleBlock ==
    << [A |-> Some(1), S |-> None], [A |-> Some(2), S |-> None],
       [A |-> Some(0), S |-> None], [A |-> Some(1), S |-> None],
       [A |-> Some(2), S |-> None] >>

Blocks == SeqsUpTo(Rows, MaxRows) \cup {ExampleBlock}
MergeBlocks == SeqsUpTo(MergeRows, MaxMergeRows)

Schema == {"A", "S"}
ColumnLists == {<<"A">>, <<"S">>, <<"A", "S">>, <<"Z">>}
ExistingColumnLists == {c \in ColumnLists : \A i \in 1..Len(c) : c[i] \in Schema}

num_rows(b) == Len(b)

\* block.try_column_by_name(&col): Ok for a column of the schema.
try_column_by_name(b, name) == name \in Schema

\* common_datavalues::is_integer(&typ) for the column's declared type.
is_integer(name) == name = "A"

\* common_datavalues::numeric_byte_size(&typ): UInt8 is one byte wide.
numeric_byte_size(name) == 1

\* The slot the kernel reserves for a column that is not an integer.
NonIntegerSlot == 4

\* DataValue::try_from_column(col, row): the value of column `name` at `r`
\* (r is 0-based).
try_from_column(b, name, r) == b[r + 1][name]

\* The group-by values of row r, one per group-by column.
KeyValues(b, names, r) == [i \in 1..Len(names) |-> try_from_column(b, names[i], r)]

(***************************************************************************)
(* Key serialization and hashing.  DataValue::concat_row_to_one_key and    *)
(* combine_hashes_v2 live in common_datavalues; the kernel only calls      *)
(* them.  They are modelled as the specification describes them: an        *)
(* integer column is written with its full byte width, every other column  *)
(* into a fixed slot of 4 bytes (longer values are cut, shorter ones       *)
(* zero-padded), and a NULL gets a key of its own (-1 in every byte of     *)
(* the slot, bytes no value produces).                                     *)
(***************************************************************************)
RECURSIVE PadTo(_, _)
PadTo(bytes, n) ==
    IF Len(bytes) >= n THEN SubSeq(bytes, 1, n) ELSE PadTo(Append(bytes, 0), n)

SlotWidth(name) == IF is_integer(name) THEN numeric_byte_size(name) ELSE NonIntegerSlot

\* DataValue::concat_row_to_one_key(col, row, &mut mem): mem with the key
\* bytes of column `name` at row r appended.
concat_row_to_one_key(b, name, r, mem) ==
    LET o == try_from_column(b, name, r)
    IN  mem \o (IF IsNull(o) THEN SeqOfN(-1, SlotWidth(name))
                ELSE IF is_integer(name) THEN <<Unwrap(o)>>
                ELSE PadTo(Unwrap(o), NonIntegerSlot))

RECURSIVE SumBytes(_)
SumBytes(s) == IF Len(s) = 0 THEN 0 ELSE s[1] + SumBytes(Tail(s))

\* The hash of one value of column `name`.
HashValue(name, o) ==
    IF IsNull(o) THEN 0
    ELSE IF is_integer(name) THEN Unwrap(o) + 1 ELSE SumBytes(Unwrap(o))

RECURSIVE CombineFrom(_, _, _, _, _)
CombineFrom(b, names, r, i, h) ==
    IF i > Len(names) THEN h
    ELSE CombineFrom(b, names, r, i + 1,
             (h * 31 + HashValue(names[i], try_from_column(b, names[i], r)))
                 % (2 ^ HashBits))

\* combine_hashes_v2(&group_columns): the combined hash of every row, a
\* value of HashBits bits that depends on the row's group-by values only.
combine_hashes_v2(b, names) == [i \in 1..Len(b) |-> CombineFrom(b, names, i - 1, 1, 0)]

(***************************************************************************)
(* group_by_get_indices, lines 48-98.                                      *)
(***************************************************************************)
EmptyTable == [k \in {} |-> 0]

RECURSIVE ConcatColumns(_, _, _, _, _)
\* for col in &group_columns { concat_row_to_one_key(col, row, &mut group_key) }
ConcatColumns(b, names, r, i, mem) ==
    IF i > Len(names) THEN mem
    ELSE ConcatColumns(b, names, r, i + 1, concat_row_to_one_key(b, names[i], r, mem))

\* A buffer the loop forgot to clear: the key of a row carries the bytes of
\* the rows before it.
RowKeyNotCleared(buf, b, names, r) == ConcatColumns(b, names, r, 1, buf)

\* Lines 76-80: group_key.clear(), then the key bytes of every group-by
\* column of row r.
RowKey(buf, b, names, r) == ConcatColumns(b, names, r, 1, <<>>)

\* A table whose hit branch drops the row instead of pushing it.
UpsertDropsOnHit(t, key, r, keys) ==
    IF key \in DOMAIN t THEN t
    ELSE [k \in DOMAIN t \cup {key} |->
             IF k = key THEN [indices |-> <<r>>, keys |-> keys] ELSE t[k]]

\* Lines 82-93 (and 162-173): match group_indices.get_mut(&key): None inserts
\* (vec![row], group_keys), Some((v, _)) pushes the row onto v.
Upsert(t, key, r, keys) ==
    IF key \in DOMAIN t
    THEN [t EXCEPT ![key].indices = Append(@, r)]
    ELSE [k \in DOMAIN t \cup {key} |->
             IF k = key THEN [indices |-> <<r>>, keys |-> keys] ELSE t[k]]

\* DataBlock::block_take_by_indices(&block, &indices): the rows at `indices`.
block_take_by_indices(b, indices) == [i \in 1..Len(indices) |-> b[indices[i] + 1]]

Workers == DOMAIN pc

IndexFns == {"group_by_get_indices", "group_by"}

\* Lines 54-60 and 131-144: resolve the group-by columns; a missing column is
\* returned as the error of the call.
GetColumns(w) ==
    /\ pc[w] = "start"
    /\ pc' = [pc EXCEPT ![w] =
                 IF \A i \in 1..Len(column_names[w]) :
                        try_column_by_name(block[w], column_names[w][i])
                 THEN "loop" ELSE "err"]
    /\ UNCHANGED <<block, column_names, fn, row, group_key, group_indices,
                   group_blocks, cmp, flt, adp, fvars, fnc, rex>>

\* One iteration of the loop of lines 75-94.
GroupRow(w) ==
    /\ pc[w] = "loop"
    /\ fn[w] \in IndexFns
    /\ row[w] < num_rows(block[w])
    /\ LET key == RowKey(group_key[w], block[w], column_names[w], row[w])
       IN  /\ group_key' = [group_key EXCEPT ![w] = key]
           /\ group_indices' = [group_indices EXCEPT ![w] =
                  Upsert(@, key, row[w], KeyValues(block[w], column_names[w], row[w]))]
    /\ row' = [row EXCEPT ![w] = @ + 1]
    /\ UNCHANGED <<block, column_names, fn, pc, group_blocks, cmp, flt, adp, fvars, fnc, rex>>

\* One iteration of the loop of lines 160-174 of group_by_version: the table
\* is keyed by the combined hash alone.
VersionRow(w) ==
    /\ pc[w] = "loop"
    /\ fn[w] = "group_by_version"
    /\ row[w] < num_rows(block[w])
    /\ LET key == combine_hashes_v2(block[w], column_names[w])[row[w] + 1]
       IN  group_indices' = [group_indices EXCEPT ![w] =
               Upsert(@, key, row[w], KeyValues(block[w], column_names[w], row[w]))]
    /\ row' = [row EXCEPT ![w] = @ + 1]
    /\ UNCHANGED <<block, column_names, fn, pc, group_key, group_blocks, cmp, flt, adp, fvars, fnc, rex>>

\* The row loop is over: group_by_get_indices returns Ok(group_indices)
\* (line 97); group_by and group_by_version go on to make the blocks.
LoopEnd(w) ==
    /\ pc[w] = "loop"
    /\ row[w] = num_rows(block[w])
    /\ pc' = [pc EXCEPT ![w] = IF fn[w] = "group_by_get_indices" THEN "done" ELSE "take"]
    /\ UNCHANGED <<block, column_names, fn, row, group_key, group_indices,
                   group_blocks, cmp, flt, adp, fvars, fnc, rex>>

Taken(w) == {group_blocks[w][i][1] : i \in 1..Len(group_blocks[w])}

\* Lines 107-110 and 191-221: the loop over the table, in the order the hash
\* map happens to iterate: any entry not yet taken may come next.
TakeBlock(w) ==
    /\ pc[w] = "take"
    /\ \E k \in DOMAIN group_indices[w] \ Taken(w) :
          group_blocks' = [group_blocks EXCEPT ![w] =
              Append(@, <<k, group_indices[w][k].keys,
                          block_take_by_indices(block[w], group_indices[w][k].indices)>>)]
    /\ UNCHANGED <<block, column_names, fn, pc, row, group_key, group_indices, cmp, flt, adp, fvars, fnc, rex>>

\* Lines 112 and 224: Ok(group_blocks).
TakeEnd(w) ==
    /\ pc[w] = "take"
    /\ Taken(w) = DOMAIN group_indices[w]
    /\ pc' = [pc EXCEPT ![w] = "done"]
    /\ UNCHANGED <<block, column_names, fn, row, group_key, group_indices,
                   group_blocks, cmp, flt, adp, fvars, fnc, rex>>

RECURSIVE GroupLoop(_, _, _, _, _)
GroupLoop(b, names, r, buf, t) ==
    IF r = num_rows(b) THEN t
    ELSE LET key == RowKey(buf, b, names, r)
         IN  GroupLoop(b, names, r + 1, key, Upsert(t, key, r, KeyValues(b, names, r)))

\* group_by_get_indices(block, column_names) run to its end on a block whose
\* group-by columns exist: the whole loop of lines 75-94.
group_by_get_indices(b, names) == GroupLoop(b, names, 0, <<>>, EmptyTable)

\* No comparison in flight.
CmpIdle ==
    [pc |-> "idle", ty |-> "", self |-> <<>>, rhs |-> <<>>, form |-> "", op |-> "",
     x |-> <<>>, result |-> [ok |-> TRUE, arr |-> <<>>, err |-> ""]]

\* No filter call in flight.
FltIdle ==
    [pc |-> "idle", fn |-> "", array |-> <<>>, predicate |-> <<>>,
     result |-> [ok |-> TRUE, arrays |-> <<>>, err |-> ""]]

\* The place of a column where there is none.
NoColumn == [kind |-> "none", data |-> <<>>, validity |-> None, len |-> 0]

\* No adapter evaluation in flight.
AdpIdle ==
    [pc |-> "idle", inner |-> [name |-> "", passthrough_null |-> FALSE,
                               passthrough_constant |-> FALSE],
     columns |-> <<>>, input_rows |-> 0,
     result |-> [kind |-> "", col |-> NoColumn, calls |-> <<>>, steps |-> <<>>,
                 args |-> <<>>]]

\* The lazy_static cell before first use, the lock with no holder.
OnceNew == [state |-> "new", runs |-> 0]
RwLockFree == [writer |-> None, readers |-> {}]

\* No function call in flight.
FncIdle ==
    [pc |-> "idle", creator |-> "", arguments |-> <<>>, columns |-> <<>>, input_rows |-> 0,
     created |-> [kind |-> "", err |-> "", func |-> <<>>],
     result |-> [kind |-> "", err |-> "", col |-> <<>>, slept |-> None]]

\* No expression call in flight.
RexIdle == [pc |-> "idle", op |-> "", expr |-> <<>>, f |-> <<>>, select |-> <<>>, result |-> <<>>]

\* The registry and the function and expression calls untouched, no thread calling.
FacIdle ==
    /\ once = OnceNew
    /\ registry = <<>>
    /\ rwlock = RwLockFree
    /\ thr = <<>>
    /\ fnc = FncIdle
    /\ rex = RexIdle

\* The grouping workers absent, no kernel, adapter or registry call in flight.
KernelsIdle ==
    /\ block = <<>>
    /\ column_names = <<>>
    /\ fn = <<>>
    /\ pc = <<>>
    /\ row = <<>>
    /\ group_key = <<>>
    /\ group_indices = <<>>
    /\ group_blocks = <<>>
    /\ cmp = CmpIdle
    /\ flt = FltIdle
    /\ adp = AdpIdle
    /\ once = OnceNew
    /\ registry = <<>>
    /\ rwlock = RwLockFree
    /\ thr = <<>>

GroupInit(ws, blocks, lists, fns) ==
    /\ block \in [ws -> blocks]
    /\ \E c \in lists : column_names = [w \in ws |-> c]
    /\ fn \in [ws -> fns]
    /\ pc = [w \in ws |-> "start"]
    /\ row = [w \in ws |-> 0]
    /\ group_key = [w \in ws |-> <<>>]
    /\ group_indices = [w \in ws |-> EmptyTable]
    /\ group_blocks = [w \in ws |-> <<>>]
    /\ cmp = CmpIdle
    /\ flt = FltIdle
    /\ adp = AdpIdle
    /\ FacIdle

\* One worker on one block, any entry point.
Init == GroupInit({1}, Blocks, ColumnLists,
                  {"group_by_get_indices", "group_by", "group_by_version"})

Next ==
    \/ \E w \in Workers : GetColumns(w)
    \/ \E w \in Workers : GroupRow(w)
    \/ \E w \in Workers : VersionRow(w)
    \/ \E w \in Workers : LoopEnd(w)
    \/ \E w \in Workers : TakeBlock(w)
    \/ \E w \in Workers : TakeEnd(w)

Spec == Init /\ [][Next]_vars

\* Two workers, each running group_by_get_indices on its own block, by the
\* same columns, in any interleaving.
MergeInit == GroupInit({1, 2}, MergeBlocks, ExistingColumnLists, {"group_by_get_indices"})

MergeNext ==
    \/ \E w \in Workers : GetColumns(w)
    \/ \E w \in Workers : GroupRow(w)
    \/ \E w \in Workers : LoopEnd(w)

SpecMerge == MergeInit /\ [][MergeNext]_vars

(***************************************************************************)
(* Properties of the grouping kernel.                                      *)
(***************************************************************************)
Range(f) == {f[i] : i \in DOMAIN f}

\* group_by_get_indices has returned its table to worker w.
IndicesReturned(w) == fn[w] \in IndexFns /\ pc[w] \in {"take", "done"}

\* The places (group, position) at which row r is listed in table t.
Places(t, r) ==
    {p \in UNION {{<<k, i>> : i \in DOMAIN t[k].indices} : k \in DOMAIN t} :
        t[p[1]].indices[p[2]] = r}

Ascending(s) == \A i, j \in DOMAIN s : i < j => s[i] < s[j]

ExampleIndices == (<<0>> :> <<2>>) @@ (<<1>> :> <<0, 3>>) @@ (<<2>> :> <<1, 4>>)

\* C1: the table group_by_get_indices returns partitions the rows: every row
\* index of 0..num_rows-1 is listed in exactly one group and exactly once, no
\* other index is listed, every list is in ascending row order, and the block
\* A = [1,2,3,4,5] grouped by A % 3 gives {0:[2], 1:[0,3], 2:[1,4]}.
C1_IndicesPartitionRows ==
    \A w \in Workers :
        IndicesReturned(w) =>
            LET t == group_indices[w]
                n == num_rows(block[w])
            IN  /\ \A r \in 0..(n - 1) : Cardinality(Places(t, r)) = 1
                /\ \A k \in DOMAIN t : Range(t[k].indices) \subseteq 0..(n - 1)
                /\ \A k \in DOMAIN t : Ascending(t[k].indices)
                /\ (block[w] = ExampleBlock /\ column_names[w] = <<"A">>)
                       => [k \in DOMAIN t |-> t[k].indices] = ExampleIndices

C1_Witness ==
    \E w \in Workers :
        /\ IndicesReturned(w)
        /\ block[w] = ExampleBlock
        /\ column_names[w] = <<"A">>
        /\ Cardinality(DOMAIN group_indices[w]) = 3
        /\ group_indices[w][<<1>>].indices = <<0, 3>>

SameGroup(t, r1, r2) ==
    \E k \in DOMAIN t : r1 \in Range(t[k].indices) /\ r2 \in Range(t[k].indices)

\* C2: in the table group_by_get_indices returns, two rows are in the same
\* group if and only if their values are equal in every group-by column (NULL
\* equal to NULL, unequal to every value), and the key values stored with a
\* group are the group-by values of every row of the group.
C2_SameGroupIffEqualValues ==
    \A w \in Workers :
        IndicesReturned(w) =>
            LET t == group_indices[w]
                b == block[w]
                names == column_names[w]
            IN  /\ \A r1, r2 \in 0..(num_rows(b) - 1) :
                       SameGroup(t, r1, r2)
                           <=> KeyValues(b, names, r1) = KeyValues(b, names, r2)
                /\ \A k \in DOMAIN t : \A r \in Range(t[k].indices) :
                       t[k].keys = KeyValues(b, names, r)

\* C3: group_by_version never puts two rows with different group-by values
\* into the same group, also when their combined hashes are equal.
C3_VersionSeparatesDistinctKeys ==
    \A w \in Workers :
        (fn[w] = "group_by_version" /\ pc[w] \in {"take", "done"}) =>
            LET t == group_indices[w]
            IN  \A k \in DOMAIN t : \A r1, r2 \in Range(t[k].indices) :
                    KeyValues(block[w], column_names[w], r1)
                        = KeyValues(block[w], column_names[w], r2)

\* The aggregation stage's merge of two tables by key bytes, the second
\* block's row indices offset by the first block's row count.
MergeByKey(t1, t2, offset) ==
    [k \in DOMAIN t1 \cup DOMAIN t2 |->
        (IF k \in DOMAIN t1 THEN Range(t1[k].indices) ELSE {})
            \cup (IF k \in DOMAIN t2 THEN {r + offset : r \in Range(t2[k].indices)} ELSE {})]

RowSets(t) == [k \in DOMAIN t |-> Range(t[k].indices)]

\* The key bytes under which table t lists row r.
KeyOfRow(t, r) == CHOOSE k \in DOMAIN t : r \in Range(t[k].indices)

\* C4: grouping two blocks independently, in any interleaving of the two
\* workers, and merging the tables by key bytes gives the mapping from key to
\* row set of grouping the concatenated block once; and rows with equal
\* group-by values have equal key bytes, whichever block and row they are.
C4_DisjointThenMerge ==
    (\A w \in Workers : IndicesReturned(w)) =>
        LET names == column_names[1]
        IN  /\ MergeByKey(group_indices[1], group_indices[2], num_rows(block[1]))
                   = RowSets(group_by_get_indices(block[1] \o block[2], names))
            /\ \A w1, w2 \in Workers :
                   \A r1 \in 0..(num_rows(block[w1]) - 1) :
                       \A r2 \in 0..(num_rows(block[w2]) - 1) :
                           KeyValues(block[w1], names, r1) = KeyValues(block[w2], names, r2)
                               => KeyOfRow(group_indices[w1], r1)
                                      = KeyOfRow(group_indices[w2], r2)

C4_Witness ==
    /\ \A w \in Workers : IndicesReturned(w)
    /\ Cardinality(Workers) = 2
    /\ num_rows(block[1]) > 0
    /\ num_rows(block[2]) > 1
    /\ \E k \in DOMAIN group_indices[1] \cap DOMAIN group_indices[2] :
           Len(group_indices[2][k].indices) = 1

(***************************************************************************)
(* The comparison kernels, arrays/comparison.rs.                           *)
(*                                                                         *)
(* An array is a sequence of Option values.  The numeric type is UInt8,    *)
(* booleans are ordered false < true, strings byte-wise.  A call returns   *)
(* Result<DFBooleanArray>: Ok(arr) or Err(err).                            *)
(***************************************************************************)
MaxLen == 3         \* length of the arrays drawn for a comparison

STR_ab == <<97, 98>>
STR_a_pct == <<97, 37>>     \* "a%": a value, and a LIKE pattern

Types == {"num", "bool", "utf8"}

ValuesOf(ty) ==
    CASE ty = "num" -> {0, 1}
      [] ty = "bool" -> {FALSE, TRUE}
      [] ty = "utf8" -> {STR_ab, STR_a_pct}

ElementsOf(ty) == {None} \cup {Some(v) : v \in ValuesOf(ty)}
ArraysOf(ty) == SeqsUpTo(ElementsOf(ty), MaxLen)

\* The arrays of comparison_test.rs: [4,3,2,4] against [1,2,3,4].
ExampleSelf == <<Some(4), Some(3), Some(2), Some(4)>>
ExampleRhs == <<Some(1), Some(2), Some(3), Some(4)>>

CmpOps == {"eq", "neq", "gt", "gt_eq", "lt", "lt_eq"}
LikeOps == {"like", "nlike"}

Ok(arr) == [ok |-> TRUE, arr |-> arr, err |-> ""]
Err(e) == [ok |-> FALSE, arr |-> <<>>, err |-> e]

null_count(a) == Cardinality({i \in DOMAIN a : IsNull(a[i])})

\* DFBooleanArray::full(value, length): `length` non-null rows of `value`.
full(value, length) == SeqOfN(Some(value), length)

RECURSIVE LexLess(_, _)
\* Byte-wise order of two strings (str's PartialOrd).
LexLess(s, t) ==
    IF Len(t) = 0 THEN FALSE
    ELSE IF Len(s) = 0 THEN TRUE
    ELSE IF s[1] # t[1] THEN s[1] < t[1]
    ELSE LexLess(Tail(s), Tail(t))

\* a < b in the order of type ty.
Less(ty, a, b) ==
    CASE ty = "num" -> a < b
      [] ty = "bool" -> (~a) /\ b
      [] ty = "utf8" -> LexLess(a, b)

RECURSIVE LikeMatch(_, _)
\* SQL LIKE as the arrow like kernels decide it: % matches any run of bytes,
\* _ any one byte, every other byte itself.
LikeMatch(s, p) ==
    IF Len(p) = 0 THEN Len(s) = 0
    ELSE IF p[1] = 37
         THEN LikeMatch(s, Tail(p)) \/ (Len(s) > 0 /\ LikeMatch(Tail(s), p))
    ELSE IF Len(s) = 0 THEN FALSE
    ELSE (p[1] = 95 \/ p[1] = s[1]) /\ LikeMatch(Tail(s), Tail(p))

\* The operand the macros are instantiated with (==, !=, >, >=, <, <=) and
\* what the arrow kernel of the same name decides for two values.
Operand(ty, op, a, b) ==
    CASE op = "eq" -> a = b
      [] op = "neq" -> a # b
      [] op = "gt" -> Less(ty, b, a)
      [] op = "gt_eq" -> ~Less(ty, a, b)
      [] op = "lt" -> Less(ty, a, b)
      [] op = "lt_eq" -> ~Less(ty, b, a)
      [] op = "like" -> LikeMatch(a, b)
      [] op = "nlike" -> ~LikeMatch(a, b)

\* An arrow binary kernel (comparison::eq, eq_utf8, like_utf8, ...) on two
\* arrays: an error for different lengths, else null where either side is.
ArrowKernel(ty, op, left, right) ==
    IF Len(left) # Len(right) THEN Err("ArrowError")
    ELSE Ok([i \in 1..Len(left) |->
                IF IsNull(left[i]) \/ IsNull(right[i]) THEN None
                ELSE Some(Operand(ty, op, Unwrap(left[i]), Unwrap(right[i])))])

\* An arrow scalar kernel (eq_scalar, eq_utf8_scalar, like_utf8_scalar, ...):
\* row i is null where the array is, else (array[i] op v).
ArrowScalarKernel(ty, op, array, v) ==
    Ok([i \in 1..Len(array) |->
           IF IsNull(array[i]) THEN None ELSE Some(Operand(ty, op, Unwrap(array[i]), v))])

\* The kernel with its operands the wrong way round.
comparisonSwapped(ty, op, self, rhs) == ArrowKernel(ty, op, rhs, self)

\* DataArray<T>::comparison / DFUtf8Array::comparison, lines 103-113 and
\* 259-269: the arrow kernel on the two downcast arrays.
comparison(ty, op, self, rhs) == ArrowKernel(ty, op, self, rhs)

\* NumCast::from(rhs) into the array's native type (UInt8).
NumCast(x) == IF x \in 0..255 THEN Some(x) ELSE None

\* ArrayCompare<Rhs> for DataArray<T> (lines 348-426) and ArrayCompare<&str>
\* for DFUtf8Array (lines 428-472): comparison with a typed scalar.
CompareScalar(ty, op, self, x) ==
    CASE ty = "num" /\ op \in CmpOps ->
             IF IsNull(NumCast(x)) THEN Ok(full(FALSE, Len(self)))
             ELSE ArrowScalarKernel(ty, op, self, Unwrap(NumCast(x)))
      [] ty = "num" /\ op = "eq_missing" ->
             IF IsNull(NumCast(x)) THEN Ok(full(FALSE, Len(self)))
             ELSE ArrowScalarKernel(ty, "eq", self, Unwrap(NumCast(x)))
      [] ty = "utf8" /\ op \in CmpOps \cup LikeOps -> ArrowScalarKernel(ty, op, self, x)
      [] ty = "utf8" /\ op = "eq_missing" -> ArrowScalarKernel(ty, "eq", self, x)
      [] OTHER -> Err("BadDataValueType")

\* The missed-value equality that answers NULL for a missing side.
eq_missing_sql(ty, self, rhs) ==
    [i \in 1..Min(Len(self), Len(rhs)) |->
        IF IsNull(self[i]) \/ IsNull(rhs[i]) THEN Some(FALSE) ELSE Some(self[i] = rhs[i])]

\* impl_eq_missing, lines 116-131: zip the two iterators, opt_a == opt_b.
impl_eq_missing(ty, self, rhs) ==
    [i \in 1..Min(Len(self), Len(rhs)) |-> Some(self[i] = rhs[i])]

\* apply!, lines 133-141: f on every non-null row, null rows stay null.
apply(ty, op, value, array) ==
    [i \in 1..Len(array) |->
        IF IsNull(array[i]) THEN None
        ELSE Some(Operand(ty, op, value, Unwrap(array[i])))]

\* apply_operand_on_array_by_iter!: the fallback the macros end in.  The
\* macro is defined outside arrays/comparison.rs; as the specification
\* describes it, it walks the two operands by position, wrapping around the
\* shorter one, and gives null where either side is null.
apply_operand_on_array_by_iter(ty, op, self, rhs) ==
    LET n == IF Len(self) = 0 \/ Len(rhs) = 0 THEN 0 ELSE Max(Len(self), Len(rhs))
        l(i) == self[((i - 1) % Len(self)) + 1]
        r(i) == rhs[((i - 1) % Len(rhs)) + 1]
    IN  [i \in 1..n |->
            IF IsNull(l(i)) \/ IsNull(r(i)) THEN None
            ELSE Some(Operand(ty, op, Unwrap(l(i)), Unwrap(r(i))))]

\* The broadcast branches tested in the wrong order: self's length first.
impl_cmp_numeric_utf8_selfFirst(ty, op, self, rhs) ==
    IF Len(self) = 1
    THEN IF ~IsNull(self[1])
         THEN Ok(apply(ty, op, Unwrap(self[1]), rhs))
         ELSE Ok(full(FALSE, Len(rhs)))
    ELSE IF Len(rhs) = 1
    THEN IF ~IsNull(rhs[1])
         THEN CompareScalar(ty, op, self, Unwrap(rhs[1]))
         ELSE Ok(full(FALSE, Len(self)))
    ELSE IF Len(self) = Len(rhs)
    THEN comparison(ty, op, self, rhs)
    ELSE Ok(apply_operand_on_array_by_iter(ty, op, self, rhs))

\* impl_cmp_numeric_utf8, lines 143-165.
impl_cmp_numeric_utf8(ty, op, self, rhs) ==
    IF Len(rhs) = 1
    THEN IF ~IsNull(rhs[1])
         THEN CompareScalar(ty, op, self, Unwrap(rhs[1]))
         ELSE Ok(full(FALSE, Len(self)))
    ELSE IF Len(self) = 1
    THEN IF ~IsNull(self[1])
         THEN Ok(apply(ty, op, Unwrap(self[1]), rhs))
         ELSE Ok(full(FALSE, Len(rhs)))
    ELSE IF Len(self) = Len(rhs)
    THEN comparison(ty, op, self, rhs)
    ELSE Ok(apply_operand_on_array_by_iter(ty, op, self, rhs))

\* DFBooleanArray::not(): the arrow not kernel, null rows stay null.
not(array) ==
    Ok([i \in 1..Len(array) |-> IF IsNull(array[i]) THEN None ELSE Some(~Unwrap(array[i]))])

\* impl_cmp_bool, lines 201-226.  The operand is used by the fallback only.
impl_cmp_bool(op, self, rhs) ==
    IF Len(rhs) = 1
    THEN IF ~IsNull(rhs[1])
         THEN (IF Unwrap(rhs[1]) THEN Ok(self) ELSE not(self))
         ELSE Ok(full(FALSE, Len(self)))
    ELSE IF Len(self) = 1
    THEN IF ~IsNull(self[1])
         THEN (IF Unwrap(self[1]) THEN Ok(rhs) ELSE not(rhs))
         ELSE Ok(full(FALSE, Len(rhs)))
    ELSE Ok(apply_operand_on_array_by_iter("bool", op, self, rhs))

\* A null broadcast that sizes its answer by the wrong operand.
impl_like_utf8_wrongLength(op, self, rhs) ==
    IF Len(rhs) = 1
    THEN IF ~IsNull(rhs[1])
         THEN CompareScalar("utf8", op, self, Unwrap(rhs[1]))
         ELSE Ok(full(FALSE, Len(rhs)))
    ELSE IF Len(self) = 1
    THEN IF ~IsNull(self[1])
         THEN CompareScalar("utf8", op, rhs, Unwrap(self[1]))
         ELSE Ok(full(FALSE, Len(self)))
    ELSE comparison("utf8", op, self, rhs)

\* impl_like_utf8, lines 272-291.  With self of length 1 the macro calls
\* $rhs.$op(value): rhs is matched against self's value as the pattern.
impl_like_utf8(op, self, rhs) ==
    IF Len(rhs) = 1
    THEN IF ~IsNull(rhs[1])
         THEN CompareScalar("utf8", op, self, Unwrap(rhs[1]))
         ELSE Ok(full(FALSE, Len(self)))
    ELSE IF Len(self) = 1
    THEN IF ~IsNull(self[1])
         THEN CompareScalar("utf8", op, rhs, Unwrap(self[1]))
         ELSE Ok(full(FALSE, Len(rhs)))
    ELSE comparison("utf8", op, self, rhs)

\* ArrayCompare<&DataArray<T>> for DataArray<T> (lines 167-199),
\* ArrayCompare<&DFBooleanArray> for DFBooleanArray (228-256) and
\* ArrayCompare<&DFUtf8Array> for DFUtf8Array (293-329); an operator a type
\* does not implement is the trait's default method (lines 26-96).
Compare(ty, op, self, rhs) ==
    CASE op = "eq_missing" -> Ok(impl_eq_missing(ty, self, rhs))
      [] op \in CmpOps /\ ty \in {"num", "utf8"} -> impl_cmp_numeric_utf8(ty, op, self, rhs)
      [] op \in CmpOps /\ ty = "bool" -> impl_cmp_bool(op, self, rhs)
      [] op \in LikeOps /\ ty = "utf8" -> impl_like_utf8(op, self, rhs)
      [] OTHER -> Err("BadDataValueType")

\* The typed scalars a caller may pass; 256 does not fit the native type.
ScalarsOf(ty) ==
    CASE ty = "num" -> {0, 1, 256}
      [] ty = "bool" -> {}
      [] ty = "utf8" -> {STR_ab, STR_a_pct}

\* self.op(&rhs) for op among eq, neq, gt, gt_eq, lt, lt_eq.
CallCompare ==
    /\ cmp.pc = "ready"
    /\ \E op \in CmpOps :
          cmp' = [cmp EXCEPT !.pc = "done", !.form = "array", !.op = op,
                             !.result = Compare(cmp.ty, op, cmp.self, cmp.rhs)]
    /\ UNCHANGED cmpRest

\* self.eq_missing(&rhs).
CallEqMissing ==
    /\ cmp.pc = "ready"
    /\ cmp' = [cmp EXCEPT !.pc = "done", !.form = "array", !.op = "eq_missing",
                          !.result = Compare(cmp.ty, "eq_missing", cmp.self, cmp.rhs)]
    /\ UNCHANGED cmpRest

\* self.like(&rhs) and self.nlike(&rhs).
CallLike ==
    /\ cmp.pc = "ready"
    /\ \E op \in LikeOps :
          cmp' = [cmp EXCEPT !.pc = "done", !.form = "array", !.op = op,
                             !.result = Compare(cmp.ty, op, cmp.self, cmp.rhs)]
    /\ UNCHANGED cmpRest

\* self.op(x) with a typed scalar x.
CallScalar ==
    /\ cmp.pc = "ready"
    /\ \E op \in CmpOps \cup LikeOps \cup {"eq_missing"} : \E x \in ScalarsOf(cmp.ty) :
          cmp' = [cmp EXCEPT !.pc = "done", !.form = "scalar", !.op = op, !.x = Some(x),
                             !.result = CompareScalar(cmp.ty, op, cmp.self, x)]
    /\ UNCHANGED cmpRest

CmpInit ==
    /\ \E ty \in Types :
          \/ \E a, b \in ArraysOf(ty) :
                cmp = [CmpIdle EXCEPT !.pc = "ready", !.ty = ty, !.self = a, !.rhs = b]
          \/ /\ ty = "num"
             /\ cmp = [CmpIdle EXCEPT !.pc = "ready", !.ty = ty,
                                      !.self = ExampleSelf, !.rhs = ExampleRhs]
    /\ block = <<>>
    /\ column_names = <<>>
    /\ fn = <<>>
    /\ pc = <<>>
    /\ row = <<>>
    /\ group_key = <<>>
    /\ group_indices = <<>>
    /\ group_blocks = <<>>
    /\ flt = FltIdle
    /\ adp = AdpIdle
    /\ FacIdle

CmpNext ==
    \/ CallCompare
    \/ CallEqMissing
    \/ CallLike
    \/ CallScalar

SpecCmp == CmpInit /\ [][CmpNext]_vars

(***************************************************************************)
(* Properties of the comparison kernels.                                   *)
(***************************************************************************)
\* An array-against-array call of op has returned.
ArrayCallDone(ops) == cmp.pc = "done" /\ cmp.form = "array" /\ cmp.op \in ops

\* The operators type ty implements for two arrays, eq_missing aside.
ArrayOpsOf(ty) == IF ty = "utf8" THEN CmpOps \cup LikeOps ELSE CmpOps

OneNonNull(a) == Len(a) = 1 /\ ~IsNull(a[1])
OneNull(a) == Len(a) = 1 /\ IsNull(a[1])

\* C5: broadcast law.  For numeric and UTF-8 arrays and eq, neq, gt, gt_eq,
\* lt, lt_eq (and like, nlike on UTF-8), comparing A with a one-element array
\* [x], x non-null, gives the column that comparing A with the scalar x gives,
\* null rows of A included.
C5_BroadcastEqualsScalar ==
    (/\ cmp.ty \in {"num", "utf8"}
     /\ ArrayCallDone(ArrayOpsOf(cmp.ty))
     /\ OneNonNull(cmp.rhs))
        => cmp.result = CompareScalar(cmp.ty, cmp.op, cmp.self, Unwrap(cmp.rhs[1]))

C5_Witness ==
    /\ cmp.ty = "utf8"
    /\ ArrayCallDone({"like"})
    /\ OneNonNull(cmp.rhs)
    /\ cmp.self = <<Some(STR_ab), None, Some(STR_a_pct)>>
    /\ cmp.rhs = <<Some(STR_a_pct)>>
    /\ cmp.result = Ok(<<Some(TRUE), None, Some(TRUE)>>)

\* C6: for boolean arrays each of eq, neq, gt, gt_eq, lt, lt_eq compares under
\* false < true with the broadcast rules: against a one-element [x], x
\* non-null, the result at every non-null row i is (A[i] op x), and with the
\* one-element array on the left it is (x op A[i]).
C6_BoolBroadcastAppliesOperator ==
    (cmp.ty = "bool" /\ ArrayCallDone(CmpOps)) =>
        /\ OneNonNull(cmp.rhs) =>
               /\ cmp.result.ok
               /\ Len(cmp.result.arr) = Len(cmp.self)
               /\ \A i \in 1..Len(cmp.self) :
                      ~IsNull(cmp.self[i]) =>
                          cmp.result.arr[i]
                              = Some(Operand("bool", cmp.op, Unwrap(cmp.self[i]),
                                             Unwrap(cmp.rhs[1])))
        /\ (Len(cmp.rhs) # 1 /\ OneNonNull(cmp.self)) =>
               /\ cmp.result.ok
               /\ Len(cmp.result.arr) = Len(cmp.rhs)
               /\ \A i \in 1..Len(cmp.rhs) :
                      ~IsNull(cmp.rhs[i]) =>
                          cmp.result.arr[i]
                              = Some(Operand("bool", cmp.op, Unwrap(cmp.self[1]),
                                             Unwrap(cmp.rhs[i])))

\* C7, as stated: null broadcast.  If rhs has length 1 and its value is null
\* the result is all-false, without nulls, of self's length; otherwise, if
\* self has length 1 and its value is null, the result is all-false, without
\* nulls, of rhs's length.
C7_NullBroadcastAsStated ==
    ArrayCallDone(ArrayOpsOf(cmp.ty)) =>
        /\ OneNull(cmp.rhs) => cmp.result = Ok(full(FALSE, Len(cmp.self)))
        /\ (~OneNull(cmp.rhs) /\ OneNull(cmp.self))
               => cmp.result = Ok(full(FALSE, Len(cmp.rhs)))

\* C7, amended: the second rule applies when rhs does not have length 1.  If
\* rhs has length 1 and its value is null the result is all-false, without
\* nulls, of self's length; otherwise, if rhs's length is not 1 and self has
\* length 1 and its value is null, the result is all-false, without nulls, of
\* rhs's length; against a one-element non-null rhs a null self row is null.
C7_NullBroadcast ==
    ArrayCallDone(ArrayOpsOf(cmp.ty)) =>
        /\ OneNull(cmp.rhs) => cmp.result = Ok(full(FALSE, Len(cmp.self)))
        /\ (Len(cmp.rhs) # 1 /\ OneNull(cmp.self))
               => cmp.result = Ok(full(FALSE, Len(cmp.rhs)))
        /\ (OneNonNull(cmp.rhs) /\ OneNull(cmp.self)) => cmp.result = Ok(<<None>>)

C7_Witness ==
    /\ ArrayCallDone({"neq"})
    /\ OneNull(cmp.self)
    /\ Len(cmp.rhs) = 3
    /\ IsNull(cmp.rhs[1]) /\ ~IsNull(cmp.rhs[2])
    /\ cmp.result = Ok(<<Some(FALSE), Some(FALSE), Some(FALSE)>>)

\* C8: for two arrays of the same type and the same length N > 1, each of eq,
\* neq, gt, gt_eq, lt, lt_eq returns a column of length N whose row i is null
\* when self[i] or rhs[i] is null and is (self[i] op rhs[i]) otherwise; eq over
\* [4,3,2,4] and [1,2,3,4] is [false,false,false,true], gt_eq is
\* [true,true,false,true].
C8_EqualLengthElementwise ==
    (ArrayCallDone(CmpOps) /\ Len(cmp.self) = Len(cmp.rhs) /\ Len(cmp.self) > 1) =>
        /\ cmp.result.ok
        /\ Len(cmp.result.arr) = Len(cmp.self)
        /\ \A i \in 1..Len(cmp.self) :
               cmp.result.arr[i] =
                   IF IsNull(cmp.self[i]) \/ IsNull(cmp.rhs[i]) THEN None
                   ELSE Some(Operand(cmp.ty, cmp.op, Unwrap(cmp.self[i]), Unwrap(cmp.rhs[i])))
        /\ (cmp.ty = "num" /\ cmp.self = ExampleSelf /\ cmp.rhs = ExampleRhs /\ cmp.op = "eq")
               => cmp.result.arr = <<Some(FALSE), Some(FALSE), Some(FALSE), Some(TRUE)>>
        /\ (cmp.ty = "num" /\ cmp.self = ExampleSelf /\ cmp.rhs = ExampleRhs /\ cmp.op = "gt_eq")
               => cmp.result.arr = <<Some(TRUE), Some(TRUE), Some(FALSE), Some(TRUE)>>

C8_Witness ==
    /\ ArrayCallDone({"gt_eq"})
    /\ cmp.ty = "num"
    /\ cmp.self = ExampleSelf
    /\ cmp.rhs = ExampleRhs
    /\ cmp.result = Ok(<<Some(TRUE), Some(TRUE), Some(FALSE), Some(TRUE)>>)

\* C9: a comparison of two arrays whose lengths differ, neither of length 1,
\* is rejected with an error.
C9_MismatchedLengthsRejected ==
    (/\ ArrayCallDone(CmpOps)
     /\ Len(cmp.self) # Len(cmp.rhs)
     /\ Len(cmp.self) # 1
     /\ Len(cmp.rhs) # 1)
        => ~cmp.result.ok

BothNull(i) == IsNull(cmp.self[i]) /\ IsNull(cmp.rhs[i])

\* What C10 says of eq_missing: a column of the operands' length, no null
\* row, row i true exactly when both sides are null or both are non-null and
\* equal.
EqMissingRows ==
    /\ cmp.result.ok
    /\ Len(cmp.result.arr) = Len(cmp.self)
    /\ \A i \in 1..Len(cmp.self) :
           cmp.result.arr[i] =
               Some(\/ BothNull(i)
                    \/ /\ ~IsNull(cmp.self[i])
                       /\ ~IsNull(cmp.rhs[i])
                       /\ Unwrap(cmp.self[i]) = Unwrap(cmp.rhs[i]))

\* eq on the operands of the call in flight is null at every row where both
\* sides are null.
EqNullOnNullRows ==
    LET e == Compare(cmp.ty, "eq", cmp.self, cmp.rhs)
    IN  e.ok /\ \A i \in 1..Len(cmp.self) : BothNull(i) => e.arr[i] = None

\* C10, as stated: for two equal-length arrays eq_missing has no null row and
\* row i is true exactly when both sides are null or both non-null and equal;
\* eq_missing(NULL, NULL) is true while eq(NULL, NULL) on the same rows is null.
C10_EqMissingAsStated ==
    (ArrayCallDone({"eq_missing"}) /\ Len(cmp.self) = Len(cmp.rhs))
        => (EqMissingRows /\ EqNullOnNullRows)

\* C10, amended: the same of eq_missing, for every equal length; eq on the
\* same rows is null when the arrays have more than one row (for one-row
\* arrays eq's null broadcast answers false).
C10_EqMissing ==
    (ArrayCallDone({"eq_missing"}) /\ Len(cmp.self) = Len(cmp.rhs)) =>
        /\ EqMissingRows
        /\ Len(cmp.self) > 1 => EqNullOnNullRows
        /\ (Len(cmp.self) = 1 /\ BothNull(1))
               => Compare(cmp.ty, "eq", cmp.self, cmp.rhs) = Ok(<<Some(FALSE)>>)

C10_Witness ==
    /\ ArrayCallDone({"eq_missing"})
    /\ Len(cmp.self) = 3 /\ Len(cmp.rhs) = 3
    /\ BothNull(1)
    /\ IsNull(cmp.self[2]) /\ ~IsNull(cmp.rhs[2])
    /\ cmp.self[3] = cmp.rhs[3] /\ ~IsNull(cmp.self[3])
    /\ cmp.result = Ok(<<Some(TRUE), Some(FALSE), Some(TRUE)>>)

\* A call of op in either form (two arrays, or an array and a typed scalar)
\* has returned.
CallDone(ops) == cmp.pc = "done" /\ cmp.op \in ops

\* C11: eq_missing returns a boolean column without nulls for every form of
\* rhs, a typed scalar included: an array with null rows against a non-null
\* numeric or string scalar gives false, not null, at the null rows.
C11_EqMissingHasNoNulls ==
    CallDone({"eq_missing"}) =>
        /\ cmp.result.ok
        /\ \A i \in 1..Len(cmp.result.arr) : ~IsNull(cmp.result.arr[i])
        /\ cmp.form = "scalar" =>
               /\ Len(cmp.result.arr) = Len(cmp.self)
               /\ \A i \in 1..Len(cmp.self) :
                      IsNull(cmp.self[i]) => cmp.result.arr[i] = Some(FALSE)

\* The three answers eq, lt and gt give on one-row operands a and b.
Trichotomy(e, l, g) ==
    /\ e.ok /\ l.ok /\ g.ok
    /\ Len(e.arr) = 1 /\ Len(l.arr) = 1 /\ Len(g.arr) = 1
    /\ ~IsNull(e.arr[1]) /\ ~IsNull(l.arr[1]) /\ ~IsNull(g.arr[1])
    /\ (IF Unwrap(e.arr[1]) THEN 1 ELSE 0) + (IF Unwrap(l.arr[1]) THEN 1 ELSE 0)
           + (IF Unwrap(g.arr[1]) THEN 1 ELSE 0) = 1

\* The answer of the call in flight is the one op gives on its operands.
InFlight(r) == cmp.result = r

\* C12 for two one-element arrays [a] and [b], a and b non-null.
SymmetryAndTrichotomyOfArrays ==
    LET e == Compare(cmp.ty, "eq", cmp.self, cmp.rhs)
        l == Compare(cmp.ty, "lt", cmp.self, cmp.rhs)
        g == Compare(cmp.ty, "gt", cmp.self, cmp.rhs)
    IN  /\ InFlight(CASE cmp.op = "eq" -> e [] cmp.op = "lt" -> l [] cmp.op = "gt" -> g)
        /\ e = Compare(cmp.ty, "eq", cmp.rhs, cmp.self)
        /\ Trichotomy(e, l, g)

\* C12 for a one-element array [a] and a typed scalar b of the array's type.
SymmetryAndTrichotomyOfScalar ==
    LET a == Unwrap(cmp.self[1])
        b == Unwrap(cmp.x)
        e == CompareScalar(cmp.ty, "eq", cmp.self, b)
        l == CompareScalar(cmp.ty, "lt", cmp.self, b)
        g == CompareScalar(cmp.ty, "gt", cmp.self, b)
    IN  /\ InFlight(CASE cmp.op = "eq" -> e [] cmp.op = "lt" -> l [] cmp.op = "gt" -> g)
        /\ e = CompareScalar(cmp.ty, "eq", <<Some(b)>>, a)
        /\ Trichotomy(e, l, g)

\* A typed scalar of the array's own native type.
ScalarOfArrayType == cmp.ty = "utf8" \/ (cmp.ty = "num" /\ ~IsNull(NumCast(Unwrap(cmp.x))))

\* C12: for all non-null scalars a and b of the same comparable type, given
\* as one-element arrays or as array against scalar, eq(a,b) equals eq(b,a)
\* and exactly one of lt(a,b), eq(a,b), gt(a,b) is true.
C12_EqSymmetricAndTrichotomy ==
    (CallDone({"eq", "lt", "gt"}) /\ OneNonNull(cmp.self)) =>
        /\ (cmp.form = "array" /\ OneNonNull(cmp.rhs)) => SymmetryAndTrichotomyOfArrays
        /\ (cmp.form = "scalar" /\ ScalarOfArrayType) => SymmetryAndTrichotomyOfScalar

\* C12 on numeric and UTF-8 operands only.
C12_HoldsOffBooleans == cmp.ty # "bool" => C12_EqSymmetricAndTrichotomy

(***************************************************************************)
(* Filter kernels: data_array_filter.rs.  A column is a sequence of        *)
(* Option values, a predicate a sequence of Option booleans of the same    *)
(* length.                                                                 *)
(***************************************************************************)
MaxFilterRows == 3

ColumnValues == {None, Some(1), Some(2)}
PredicateValues == {None, Some(TRUE), Some(FALSE)}

\* The columns and the predicate of data_array_filter_test.rs.
ExampleBatch ==
    << <<Some(1), Some(2), Some(3), Some(4), Some(5)>>,
       <<Some(6), Some(7), Some(8), Some(9), Some(10)>> >>
ExamplePredicate == <<Some(TRUE), Some(FALSE), Some(TRUE), Some(FALSE), Some(TRUE)>>
ExampleNullPredicate == <<Some(TRUE), Some(FALSE), Some(TRUE), None, None>>

\* One column, or a batch of two, of n rows each.
BatchesOf(n) ==
    LET cols == [1..n -> ColumnValues]
    IN  {<<c>> : c \in cols} \cup {<<c, d>> : c \in cols, d \in cols}

FltOk(arrays) == [ok |-> TRUE, arrays |-> arrays, err |-> ""]

\* arrow::compute::prep_null_mask_filter: the value bits and-ed with the
\* validity bits, no null left.
prep_null_mask_filter(filter) ==
    [i \in 1..Len(filter) |-> Some(~IsNull(filter[i]) /\ Unwrap(filter[i]))]

\* filter_count, lines 15-18: the set bits of the value buffer.  It is only
\* called on a predicate without nulls.
filter_count(filter) ==
    Cardinality({i \in 1..Len(filter) : ~IsNull(filter[i]) /\ Unwrap(filter[i])})

RECURSIVE build_filter(_, _)
\* The closure arrow::compute::build_filter(predicate) returns, applied to
\* the data of one array: the rows whose predicate bit is set, in order,
\* each with its own validity.
build_filter(predicate, data) ==
    IF Len(predicate) = 0 THEN <<>>
    ELSE (IF Unwrap(predicate[1]) THEN <<data[1]>> ELSE <<>>)
             \o build_filter(Tail(predicate), Tail(data))

\* A batch filter that lets the rows of a null predicate through.
filter_batch_array_nullsKept(array, predicate) ==
    FltOk([k \in 1..Len(array) |->
              build_filter([i \in 1..Len(predicate) |->
                               Some(IsNull(predicate[i]) \/ Unwrap(predicate[i]))],
                           array[k])])

RECURSIVE filter_batch_array(_, _)
\* DataArrayFilter::filter_batch_array, lines 47-65.
filter_batch_array(array, predicate) ==
    IF null_count(predicate) > 0
    THEN filter_batch_array(array, prep_null_mask_filter(predicate))
    ELSE FltOk([k \in 1..Len(array) |-> build_filter(predicate, array[k])])

RECURSIVE filter(_, _)
\* DataArrayFilter::filter, lines 20-45.  `array` in the body names the
\* column; the `actually filter` arm (lines 38-42) clones the column's data
\* as the `return all` arm does.
filter(column, predicate) ==
    IF null_count(predicate) > 0
    THEN filter(column, prep_null_mask_filter(predicate))
    ELSE LET count == filter_count(predicate)
         IN  IF count = 0 THEN FltOk(<< <<>> >>)
             ELSE IF count = Len(column) THEN FltOk(<<column>>)
             ELSE FltOk(<<column>>)

\* DataArrayFilter::filter_batch_array(array, &predicate).
CallFilterBatchArray ==
    /\ flt.pc = "ready"
    /\ flt' = [flt EXCEPT !.pc = "done", !.fn = "filter_batch_array",
                          !.result = filter_batch_array(flt.array, flt.predicate)]
    /\ UNCHANGED fltRest

\* DataArrayFilter::filter(column, &predicate) on a single column.
CallFilter ==
    /\ flt.pc = "ready"
    /\ Len(flt.array) = 1
    /\ flt' = [flt EXCEPT !.pc = "done", !.fn = "filter",
                          !.result = filter(flt.array[1], flt.predicate)]
    /\ UNCHANGED fltRest

FltInit ==
    /\ \/ \E n \in 0..MaxFilterRows : \E a \in BatchesOf(n), p \in [1..n -> PredicateValues] :
             flt = [FltIdle EXCEPT !.pc = "ready", !.array = a, !.predicate = p]
       \/ \E p \in {ExamplePredicate, ExampleNullPredicate} :
             flt = [FltIdle EXCEPT !.pc = "ready", !.array = ExampleBatch, !.predicate = p]
    /\ block = <<>>
    /\ column_names = <<>>
    /\ fn = <<>>
    /\ pc = <<>>
    /\ row = <<>>
    /\ group_key = <<>>
    /\ group_indices = <<>>
    /\ group_blocks = <<>>
    /\ cmp = CmpIdle
    /\ adp = AdpIdle
    /\ FacIdle

FltNext ==
    \/ CallFilterBatchArray
    \/ CallFilter

SpecFlt == FltInit /\ [][FltNext]_vars

(***************************************************************************)
(* Properties of the filter kernels.                                       *)
(***************************************************************************)
FilterDone(f) == flt.pc = "done" /\ flt.fn = f

\* Predicate row i is true (a null row is not).
IsTrueRow(i) == ~IsNull(flt.predicate[i]) /\ Unwrap(flt.predicate[i])

\* How many of the predicate rows 1..i are true.
TrueRowsUpTo(i) == Cardinality({j \in 1..i : IsTrueRow(j)})

\* out holds exactly the rows of column whose predicate is true, in order.
ExactlyTrueRows(column, out) ==
    /\ Len(out) = TrueRowsUpTo(Len(flt.predicate))
    /\ \A i \in 1..Len(column) : IsTrueRow(i) => out[TrueRowsUpTo(i)] = column[i]

\* C13: filter_batch_array, given arrays of length N and a predicate of
\* length N that may hold nulls, returns for every array exactly the elements
\* at the rows where the predicate is true, in order; a null predicate row
\* excludes the row as false does; all outputs have the same length;
\* [1,2,3,4,5] with [true,false,true,null,null] gives [1,3].
C13_BatchFilterKeepsTrueRows ==
    FilterDone("filter_batch_array") =>
        /\ flt.result.ok
        /\ Len(flt.result.arrays) = Len(flt.array)
        /\ \A k \in 1..Len(flt.array) : ExactlyTrueRows(flt.array[k], flt.result.arrays[k])
        /\ flt.result = filter_batch_array(flt.array,
                            [i \in 1..Len(flt.predicate) |-> Some(IsTrueRow(i))])
        /\ (flt.array = ExampleBatch /\ flt.predicate = ExampleNullPredicate)
               => flt.result.arrays = << <<Some(1), Some(3)>>, <<Some(6), Some(8)>> >>

C13_Witness ==
    /\ FilterDone("filter_batch_array")
    /\ flt.array = ExampleBatch
    /\ flt.predicate = ExampleNullPredicate
    /\ flt.result.arrays = << <<Some(1), Some(3)>>, <<Some(6), Some(8)>> >>

\* C14: the single-column filter returns the same rows as filter_batch_array
\* on that one column: an empty column when no predicate row is true, the
\* whole column when every row is true, otherwise exactly the rows whose
\* predicate is true, in order, null predicate rows counting as false.
C14_FilterEqualsBatchFilter ==
    FilterDone("filter") =>
        /\ flt.result.ok
        /\ flt.result.arrays = filter_batch_array(flt.array, flt.predicate).arrays
        /\ ExactlyTrueRows(flt.array[1], flt.result.arrays[1])

\* The two fast paths of filter agree with filter_batch_array.
C14_FastPathsAgree ==
    (/\ FilterDone("filter")
     /\ TrueRowsUpTo(Len(flt.predicate)) \in {0, Len(flt.predicate)})
        => flt.result.arrays = filter_batch_array(flt.array, flt.predicate).arrays

(***************************************************************************)
(* Null/constant evaluation adapter: function2_adapter.rs.                 *)
(* A column is a record: kind "array" (len values, an optional validity    *)
(* bitmap), "const" (one value, itself null or not, broadcast over len     *)
(* rows) or "null" (the all-null column of the Null type).  The column     *)
(* types themselves live outside function2_adapter.rs; their operations    *)
(* are modelled as the specification describes the column model.           *)
(***************************************************************************)
MaxAdapterRows == 2

AdapterValues == {0, 1}

ArrayColumn(data, validity) ==
    [kind |-> "array", data |-> data, validity |-> validity, len |-> Len(data)]
\* ConstColumn::new(col, n) of a one-row column col.
ConstColumn(col, n) == [kind |-> "const", data |-> col.data, validity |-> col.validity, len |-> n]
\* NullColumn::new(n).
NullColumn(n) == [kind |-> "null", data |-> <<>>, validity |-> None, len |-> n]

\* The argument columns of n rows.
ColumnsOf(n) ==
    {ArrayColumn(d, None) : d \in [1..n -> AdapterValues]}
        \cup {ArrayColumn(d, Some(v)) : d \in [1..n -> AdapterValues], v \in [1..n -> BOOLEAN]}
        \cup {ConstColumn(ArrayColumn(<<x>>, None), n) : x \in AdapterValues}
        \cup {ConstColumn(ArrayColumn(<<x>>, Some(<<b>>)), n) : x \in AdapterValues, b \in BOOLEAN}
        \cup {NullColumn(n)}

\* No argument, one, or two.
ArgumentsOf(n) ==
    {<<>>} \cup {<<c>> : c \in ColumnsOf(n)} \cup {<<c, d>> : c \in ColumnsOf(n), d \in ColumnsOf(n)}

\* The inner functions: an arithmetic one, a `try` conversion that answers
\* null when it fails, one that returns a constant, one of Null return type,
\* and crashme; each with its two passthrough flags.
InnerNames == {"plus", "try", "totypename", "null", "crashme"}
InnerFns ==
    [name : InnerNames, passthrough_null : BOOLEAN, passthrough_constant : BOOLEAN]

\* v.data_type().data_type_id() == TypeID::Null, v.data_type().is_nullable().
IsNullType(c) == c.kind = "null"
IsNullableType(c) == c.kind # "null" /\ ~IsNull(c.validity)

\* Column::is_const, is_null, is_nullable of a column object.
is_const(c) == c.kind = "const"
is_null(c) == c.kind = "null"
is_nullable(c) == c.kind = "array" /\ ~IsNull(c.validity)

\* The value of column c at row i (1-based), None for a null.
RowOf(c, i) ==
    LET j == IF c.kind = "const" THEN 1 ELSE i
    IN  IF c.kind = "null" THEN None
        ELSE IF ~IsNull(c.validity) /\ ~Unwrap(c.validity)[j] THEN None
        ELSE Some(c.data[j])

\* The rows of a column, as Options.
RowsOf(c) == [i \in 1..c.len |-> RowOf(c, i)]

\* Column::validity(): (is_all_null, the bitmap if the column carries one).
validity(c) ==
    IF c.kind = "null" THEN <<TRUE, None>>
    ELSE IF c.kind = "const"
    THEN <<IsNull(RowOf(c, 1)), None>>
    ELSE <<FALSE, c.validity>>

\* combine_validities_2 / combine_validities: the and of the bitmaps present.
combine_validities(lhs, rhs) ==
    IF IsNull(lhs) THEN rhs
    ELSE IF IsNull(rhs) THEN lhs
    ELSE Some([i \in 1..Min(Len(Unwrap(lhs)), Len(Unwrap(rhs))) |->
                  Unwrap(lhs)[i] /\ Unwrap(rhs)[i]])

\* remove_nullable / Series::remove_nullable: the plain inner column.
remove_nullable(c) == [c EXCEPT !.validity = None]

\* NullableColumn::new(col, validity): col's values under the bitmap; a row
\* col itself holds as null stays null.
NullableColumn(col, bitmap) ==
    ArrayColumn([i \in 1..col.len |-> IF col.kind = "null" THEN 0
                                      ELSE col.data[IF col.kind = "const" THEN 1 ELSE i]],
                Some([i \in 1..col.len |->
                         (i \in 1..Len(bitmap) /\ bitmap[i]) /\ ~IsNull(RowOf(col, i))]))

\* `steps` lists the null-stripping and constant-unwrapping steps that led
\* to the inner call, outermost first; `args` the columns the inner saw.
\* An evaluation that returned col after the inner calls `calls` (the
\* input_rows of each), and one that panicked.
Returned(col, calls) ==
    [kind |-> "ok", col |-> col, calls |-> calls, steps |-> <<>>, args |-> <<>>]
Panicked(calls) ==
    [kind |-> "panic", col |-> NoColumn, calls |-> calls, steps |-> <<>>, args |-> <<>>]

\* What the inner function computes from the values of one row.
InnerRow(name, args) ==
    LET sum == IF Len(args) = 0 THEN 0
               ELSE IF Len(args) = 1 THEN Unwrap(args[1])
               ELSE (Unwrap(args[1]) + Unwrap(args[2])) % 2
    IN  IF \E k \in 1..Len(args) : IsNull(args[k]) THEN None
        ELSE IF name = "try" /\ sum = 0 THEN None
        ELSE Some(sum)

\* self.inner.eval(columns, input_rows).
inner_eval(f, columns, input_rows) ==
    LET rows == [i \in 1..input_rows |->
                    InnerRow(f.name, [k \in 1..Len(columns) |-> RowOf(columns[k], i)])]
        data == [i \in 1..input_rows |-> IF IsNull(rows[i]) THEN 0 ELSE Unwrap(rows[i])]
        bits == [i \in 1..input_rows |-> ~IsNull(rows[i])]
        r ==
        CASE f.name = "crashme" -> Panicked(<<input_rows>>)
          [] f.name = "null" -> Returned(NullColumn(input_rows), <<input_rows>>)
          [] f.name = "totypename" ->
                 Returned(ConstColumn(ArrayColumn(<<1>>, None), input_rows), <<input_rows>>)
          [] f.name = "plus" /\ \A k \in 1..Len(columns) : remove_nullable(columns[k]) = columns[k]
                             /\ columns[k].kind # "null" ->
                 Returned(ArrayColumn(data, None), <<input_rows>>)
          [] OTHER -> Returned(ArrayColumn(data, Some(bits)), <<input_rows>>)
    IN  [r EXCEPT !.args = columns]

RECURSIVE MergeValidity(_, _, _, _, _)
\* The closure of lines 97-106 run over columns[k..]: validity and
\* has_all_null as the map leaves them.
MergeValidity(columns, k, input_rows, bitmap, has_all_null) ==
    IF k > Len(columns) THEN bitmap
    ELSE LET v == validity(columns[k])
         IN  IF v[1]
             THEN MergeValidity(columns, k + 1, input_rows,
                                Some(SeqOfN(FALSE, input_rows)), TRUE)
             ELSE IF ~has_all_null
             THEN MergeValidity(columns, k + 1, input_rows,
                                combine_validities(bitmap, v[2]), has_all_null)
             ELSE MergeValidity(columns, k + 1, input_rows, bitmap, has_all_null)

\* An adapter that hands the one-row result of the constant path back as it
\* is.
eval_singleRowResult(f, columns, input_rows) ==
    IF Len(columns) > 0 /\ f.passthrough_constant
           /\ \A k \in 1..Len(columns) : is_const(columns[k])
    THEN inner_eval(f, [k \in 1..Len(columns) |->
                           ArrayColumn(columns[k].data, columns[k].validity)], 1)
    ELSE inner_eval(f, columns, input_rows)

RECURSIVE eval(_, _, _)
\* An adapter without the null passthrough.
eval_noNullPassthrough(f, columns, input_rows) ==
    IF Len(columns) = 0 THEN inner_eval(f, columns, input_rows)
    ELSE IF f.passthrough_constant /\ \A k \in 1..Len(columns) : is_const(columns[k])
    THEN LET r == inner_eval(f, [k \in 1..Len(columns) |->
                                    ArrayColumn(columns[k].data, columns[k].validity)], 1)
         IN  IF r.kind # "ok" THEN r
             ELSE [r EXCEPT !.col = IF is_null(r.col) THEN NullColumn(input_rows)
                                    ELSE ConstColumn(r.col, input_rows)]
    ELSE inner_eval(f, columns, input_rows)

\* An adapter that unwraps constants before it strips the nullable wrappers.
eval_constantsFirst(f, columns, input_rows) ==
    IF Len(columns) = 0 THEN inner_eval(f, columns, input_rows)
    ELSE IF f.passthrough_constant /\ \A k \in 1..Len(columns) : is_const(columns[k])
    THEN LET inner == eval(f, [k \in 1..Len(columns) |->
                                  ArrayColumn(columns[k].data, columns[k].validity)], 1)
         IN  [inner EXCEPT !.steps = <<"unwrap_const">> \o @]
    ELSE IF f.passthrough_null /\ \E k \in 1..Len(columns) : IsNullableType(columns[k])
    THEN LET inner == eval(f, [k \in 1..Len(columns) |-> remove_nullable(columns[k])],
                           input_rows)
         IN  [inner EXCEPT !.steps = <<"strip_null">> \o @]
    ELSE inner_eval(f, columns, input_rows)

\* Function2Adapter::eval, lines 76-173.
eval(f, columns, input_rows) ==
    IF Len(columns) = 0 THEN inner_eval(f, columns, input_rows)
    ELSE IF f.passthrough_null /\ \E k \in 1..Len(columns) : IsNullType(columns[k])
    THEN Returned(NullColumn(input_rows), <<>>)
    ELSE IF f.passthrough_null /\ \E k \in 1..Len(columns) : IsNullableType(columns[k])
    THEN LET merged == MergeValidity(columns, 1, input_rows, None, FALSE)
             inner == eval(f, [k \in 1..Len(columns) |-> remove_nullable(columns[k])],
                           input_rows)
             r == [inner EXCEPT !.steps = <<"strip_null">> \o @]
         IN  IF r.kind # "ok" THEN r
             ELSE LET col == r.col
                      own == IF is_nullable(col)
                             THEN combine_validities(validity(col)[2], merged)
                             ELSE merged
                      bitmap == IF IsNull(own) THEN SeqOfN(TRUE, input_rows) ELSE Unwrap(own)
                  IN  [r EXCEPT !.col = IF is_nullable(col)
                                        THEN NullableColumn(remove_nullable(col), bitmap)
                                        ELSE NullableColumn(col, bitmap)]
    ELSE IF f.passthrough_constant /\ \A k \in 1..Len(columns) : is_const(columns[k])
    THEN LET inner == eval(f, [k \in 1..Len(columns) |->
                                  ArrayColumn(columns[k].data, columns[k].validity)], 1)
             r == [inner EXCEPT !.steps = <<"unwrap_const">> \o @]
         IN  IF r.kind # "ok" THEN r
             ELSE [r EXCEPT !.col =
                      IF is_const(r.col) /\ r.col.len = 1
                      THEN [r.col EXCEPT !.len = input_rows]
                      ELSE IF is_null(r.col) THEN NullColumn(input_rows)
                      ELSE ConstColumn(r.col, input_rows)]
    ELSE inner_eval(f, columns, input_rows)

\* adapter.eval(&columns, input_rows), the adapter wrapping adp.inner.
CallEval ==
    /\ adp.pc = "ready"
    /\ adp' = [adp EXCEPT !.pc = "done",
                          !.result = eval(adp.inner, adp.columns, adp.input_rows)]
    /\ UNCHANGED adpRest

AdpInit ==
    /\ \E n \in 1..MaxAdapterRows : \E f \in InnerFns, cols \in ArgumentsOf(n) :
          adp = [AdpIdle EXCEPT !.pc = "ready", !.inner = f, !.columns = cols,
                                !.input_rows = n]
    /\ block = <<>>
    /\ column_names = <<>>
    /\ fn = <<>>
    /\ pc = <<>>
    /\ row = <<>>
    /\ group_key = <<>>
    /\ group_indices = <<>>
    /\ group_blocks = <<>>
    /\ cmp = CmpIdle
    /\ flt = FltIdle
    /\ FacIdle

AdpNext == CallEval

SpecAdp == AdpInit /\ [][AdpNext]_vars

(***************************************************************************)
(* Properties of the adapter.                                              *)
(***************************************************************************)
\* An evaluation through the adapter has ended; the inner function is one
\* that returns.
EvalReturned == adp.pc = "done" /\ adp.inner.name # "crashme"

\* Some argument is null at row r: its validity bit is false, it is all-null,
\* or its type is the Null type.
SomeArgumentNullAt(r) == \E k \in 1..Len(adp.columns) : IsNull(RowOf(adp.columns[k], r))

\* C15: null-adapter law.  For a function with passthrough_null wrapped by
\* the adapter and called with at least one argument, if any argument is null
\* at row r the output at row r is null, whatever the other arguments'
\* validity and whatever the inner function returns; the output has
\* input_rows rows.
C15_NullArgumentGivesNullRow ==
    (EvalReturned /\ adp.inner.passthrough_null /\ Len(adp.columns) >= 1) =>
        /\ adp.result.kind = "ok"
        /\ adp.result.col.len = adp.input_rows
        /\ \A r \in 1..adp.input_rows :
               SomeArgumentNullAt(r) => IsNull(RowOf(adp.result.col, r))

C15_Witness ==
    /\ EvalReturned
    /\ adp.inner = [name |-> "plus", passthrough_null |-> TRUE, passthrough_constant |-> TRUE]
    /\ adp.columns = <<ArrayColumn(<<1, 1>>, Some(<<TRUE, FALSE>>)),
                       ConstColumn(ArrayColumn(<<1>>, None), 2)>>
    /\ RowsOf(adp.result.col) = <<Some(0), None>>

AllConstant == \A k \in 1..Len(adp.columns) : is_const(adp.columns[k])

\* A Constant materialized as an array of its len rows.
Materialized(c) ==
    ArrayColumn(SeqOfN(c.data[1], c.len),
                IF IsNull(c.validity) THEN None
                ELSE Some(SeqOfN(Unwrap(c.validity)[1], c.len)))

\* The one-row column a Constant holds.
OneRow(c) == ArrayColumn(c.data, c.validity)

C20_PanicIsReportedAsError ==
    (adp.pc = "done" /\ adp.inner.name = "crashme" /\ adp.result.calls # <<>>)
        => adp.result.kind = "err"

(***************************************************************************)
(* Function registry: function_factory.rs, and the threads that call it.   *)
(* Names are byte strings.                                                 *)
(***************************************************************************)
STR_sym_plus == <<43>>  \* "+"
STR_plus == <<112, 108, 117, 115>>  \* "plus"
STR_sleep == <<115, 108, 101, 101, 112>>  \* "sleep"
STR_PLUS_upper == <<80, 76, 85, 83>>  \* "PLUS"
STR_Plus_mixed == <<80, 108, 117, 115>>  \* "Plus"
STR_SLEEP_upper == <<83, 76, 69, 69, 80>>  \* "SLEEP"
STR_CrashMe_mixed == <<67, 114, 97, 115, 104, 77, 101>>  \* "CrashMe"
STR_nosuch == <<110, 111, 115, 117, 99, 104>>  \* "nosuch"
STR_NOT_LIKE_upper == <<78, 79, 84, 32, 76, 73, 75, 69>>  \* "NOT LIKE"

\* The names a caller may pass, and the type of its first argument.
CallNames ==
    {STR_plus, STR_PLUS_upper, STR_Plus_mixed, STR_sym_plus, STR_sleep, STR_SLEEP_upper,
     STR_CrashMe_mixed, STR_NOT_LIKE_upper, STR_nosuch}
ArgumentTypes == {"numeric", "utf8"}

Threads == {1, 2}

\* A lookup that takes the name as it is written.
to_lowercase_asIs(name) == name

\* str::to_lowercase (lines 44, 51) on an ASCII name: A-Z become a-z.
to_lowercase(name) ==
    [i \in 1..Len(name) |-> IF name[i] \in 65..90 THEN name[i] + 32 ELSE name[i]]

\* The entries each family's register inserts, in order.
ArithmeticFunction_register ==
    << <<STR_sym_plus, "ArithmeticPlusFunction">>,  \* "+"
       <<STR_plus, "ArithmeticPlusFunction">>,  \* "plus"
       << <<45>>, "ArithmeticMinusFunction">>,  \* "-"
       << <<109, 105, 110, 117, 115>>, "ArithmeticMinusFunction">>,  \* "minus"
       << <<42>>, "ArithmeticMulFunction">>,  \* "*"
       << <<109, 117, 108, 116, 105, 112, 108, 121>>, "ArithmeticMulFunction">>,  \* "multiply"
       << <<47>>, "ArithmeticDivFunction">>,  \* "/"
       << <<100, 105, 118, 105, 100, 101>>, "ArithmeticDivFunction">>,  \* "divide"
       << <<37>>, "ArithmeticModuloFunction">>,  \* "%"
       << <<109, 111, 100, 117, 108, 111>>, "ArithmeticModuloFunction">> >>  \* "modulo"

ComparisonFunction_register ==
    << << <<61>>, "ComparisonEqFunction">>,  \* "="
       << <<60>>, "ComparisonLtFunction">>,  \* "<"
       << <<62>>, "ComparisonGtFunction">>,  \* ">"
       << <<60, 61>>, "ComparisonLtEqFunction">>,  \* "<="
       << <<62, 61>>, "ComparisonGtEqFunction">>,  \* ">="
       << <<33, 61>>, "ComparisonNotEqFunction">>,  \* "!="
       << <<60, 62>>, "ComparisonNotEqFunction">>,  \* "<>"
       << <<108, 105, 107, 101>>, "ComparisonLikeFunction">>,  \* "like"
       << <<110, 111, 116, 32, 108, 105, 107, 101>>, "ComparisonNotLikeFunction">> >>  \* "not like"

\* logics/ and strings/ hold no register of their own here; the entries of
\* these two families are the functions their tests construct.
LogicFunction_register ==
    << << <<97, 110, 100>>, "LogicAndFunction">>,  \* "and"
       << <<111, 114>>, "LogicOrFunction">>,  \* "or"
       << <<110, 111, 116>>, "LogicNotFunction">> >>  \* "not"

StringFunction_register ==
    << << <<115, 117, 98, 115, 116, 114, 105, 110, 103>>, "SubstringFunction">> >>  \* "substring"

UdfFunction_register ==
    << << <<101, 120, 97, 109, 112, 108, 101>>, "UdfExampleFunction">>,  \* "example"
       << <<116, 111, 116, 121, 112, 101, 110, 97, 109, 101>>, "ToTypeNameFunction">>,  \* "totypename"
       << <<100, 97, 116, 97, 98, 97, 115, 101>>, "DatabaseFunction">>,  \* "database"
       << <<118, 101, 114, 115, 105, 111, 110>>, "VersionFunction">>,  \* "version"
       <<STR_sleep, "SleepFunction">>,  \* "sleep"
       << <<99, 114, 97, 115, 104, 109, 101>>, "CrashMeFunction">>,  \* "crashme"
       << <<105, 102>>, "ConditionFunction">> >>  \* "if"

HashesFunction_register ==
    << << <<115, 105, 112, 104, 97, 115, 104>>, "SipHashFunction">> >>  \* "siphash"

\* The register calls of the initializer, lines 30-35, in order.
Families ==
    <<ArithmeticFunction_register, ComparisonFunction_register, LogicFunction_register,
      StringFunction_register, UdfFunction_register, HashesFunction_register>>

\* IndexMap::insert: replace the value of a key present, else append.
insert(map, k, v) ==
    IF \E i \in 1..Len(map) : map[i][1] = k
    THEN [i \in 1..Len(map) |-> IF map[i][1] = k THEN <<k, v>> ELSE map[i]]
    ELSE Append(map, <<k, v>>)

\* IndexMap::get, contains_key and keys.
map_get(map, k) ==
    IF \E i \in 1..Len(map) : map[i][1] = k
    THEN Some(map[CHOOSE i \in 1..Len(map) : map[i][1] = k][2])
    ELSE None
contains_key(map, k) == \E i \in 1..Len(map) : map[i][1] = k
keys(map) == [i \in 1..Len(map) |-> map[i][1]]

\* What a call has returned.
NoResult == [kind |-> "", creator |-> "", found |-> FALSE, names |-> <<>>]
GetOk(creator) == [NoResult EXCEPT !.kind = "ok", !.creator = creator]
GetErr(code) == [NoResult EXCEPT !.kind = code]

\* (creator)(name, argument), line 46: SleepFunction::try_create rejects a
\* first argument that is not numeric (sleep.rs lines 24-35); the other
\* constructors called here build their function.
Construct(creator, argument) ==
    IF creator = "SleepFunction" /\ argument # "numeric" THEN GetErr("BadArguments")
    ELSE GetOk(creator)

\* FunctionFactory::get on the map behind the guard, lines 43-46.
get(map, name, argument) ==
    LET creator == map_get(map, to_lowercase(name))
    IN  IF IsNull(creator) THEN GetErr("UnknownFunction")
        ELSE Construct(Unwrap(creator), argument)

\* FunctionFactory::check, line 51.
check(map, name) == contains_key(map, to_lowercase(name))

\* FunctionFactory::registered_names, line 56.
registered_names(map) == keys(map)

\* A thread outside any call.
ThrIdle ==
    [pc |-> "idle", op |-> "", name |-> <<>>, argument |-> "", step |-> 0,
     entry |-> 0, result |-> NoResult]

\* An initializer that every thread arriving before the cell is done runs.
MayInitializeRacy(o) == o.state # "done"

\* lazy_static!, lines 27-28: std::sync::Once lets the first thread that
\* dereferences FACTORY run the initializer; the others wait for it.
MayInitialize(o) == o.state = "new"

\* A read guard that outlives the call that took it.
DropGuardKept(readers, t) == readers

\* The guard `map` of FACTORY.read() goes out of scope when the call returns
\* (lines 47, 52, 57).
DropGuard(readers, t) == readers \ {t}

\* A thread calls get, check or registered_names.
Call(t) ==
    /\ thr[t].pc = "idle"
    /\ \/ \E n \in CallNames, a \in ArgumentTypes :
             thr' = [thr EXCEPT ![t] = [ThrIdle EXCEPT !.pc = "deref", !.op = "get",
                                                        !.name = n, !.argument = a]]
       \/ \E n \in CallNames :
             thr' = [thr EXCEPT ![t] = [ThrIdle EXCEPT !.pc = "deref", !.op = "check",
                                                        !.name = n]]
       \/ thr' = [thr EXCEPT ![t] = [ThrIdle EXCEPT !.pc = "deref",
                                                    !.op = "registered_names"]]
    /\ UNCHANGED <<once, registry, rwlock, facRest>>

\* First use of FACTORY: this thread starts the initializer, line 29.
Initialize(t) ==
    /\ thr[t].pc = "deref"
    /\ MayInitialize(once)
    /\ once' = [state |-> "running", runs |-> once.runs + 1]
    /\ registry' = <<>>
    /\ thr' = [thr EXCEPT ![t].pc = "init", ![t].step = 1]
    /\ UNCHANGED <<rwlock, facRest>>

\* X::register(map.clone()), lines 30-35, begins: `let mut map = map.write()`
\* waits until no thread holds the lock.
Register(t) ==
    /\ thr[t].pc = "init"
    /\ thr[t].step <= Len(Families)
    /\ thr[t].entry = 0
    /\ IsNull(rwlock.writer) /\ rwlock.readers = {}
    /\ rwlock' = [rwlock EXCEPT !.writer = Some(t)]
    /\ thr' = [thr EXCEPT ![t].entry = 1]
    /\ UNCHANGED <<once, registry, facRest>>

\* The next map.insert of the family being registered.
Insert(t) ==
    /\ thr[t].pc = "init"
    /\ thr[t].step <= Len(Families)
    /\ thr[t].entry \in 1..Len(Families[thr[t].step])
    /\ registry' = insert(registry, Families[thr[t].step][thr[t].entry][1],
                          Families[thr[t].step][thr[t].entry][2])
    /\ thr' = [thr EXCEPT ![t].entry = @ + 1]
    /\ UNCHANGED <<once, rwlock, facRest>>

\* register returns Ok(()) and its write guard is dropped.
Registered(t) ==
    /\ thr[t].pc = "init"
    /\ thr[t].step <= Len(Families)
    /\ thr[t].entry > Len(Families[thr[t].step])
    /\ rwlock' = [rwlock EXCEPT !.writer = None]
    /\ thr' = [thr EXCEPT ![t].step = @ + 1, ![t].entry = 0]
    /\ UNCHANGED <<once, registry, facRest>>

\* The initializer returns the map, line 36; the cell is done.
InitDone(t) ==
    /\ thr[t].pc = "init"
    /\ thr[t].step > Len(Families)
    /\ once' = [once EXCEPT !.state = "done"]
    /\ thr' = [thr EXCEPT ![t].pc = "lock", ![t].step = 0]
    /\ UNCHANGED <<registry, rwlock, facRest>>

\* Dereferencing FACTORY once the cell is done.
Deref(t) ==
    /\ thr[t].pc = "deref"
    /\ once.state = "done"
    /\ thr' = [thr EXCEPT ![t].pc = "lock"]
    /\ UNCHANGED <<once, registry, rwlock, facRest>>

\* FACTORY.read(), lines 42, 50, 55: granted unless a writer holds the lock.
ReadLock(t) ==
    /\ thr[t].pc = "lock"
    /\ IsNull(rwlock.writer)
    /\ rwlock' = [rwlock EXCEPT !.readers = @ \cup {t}]
    /\ thr' = [thr EXCEPT ![t].pc = "read"]
    /\ UNCHANGED <<once, registry, facRest>>

\* FunctionFactory::get under the read guard, lines 43-47.
Get(t) ==
    /\ thr[t].pc = "read"
    /\ thr[t].op = "get"
    /\ thr' = [thr EXCEPT ![t].pc = "returned",
                          ![t].result = get(registry, thr[t].name, thr[t].argument)]
    /\ rwlock' = [rwlock EXCEPT !.readers = DropGuard(@, t)]
    /\ UNCHANGED <<once, registry, facRest>>

\* FunctionFactory::check under the read guard, lines 51-52.
Check(t) ==
    /\ thr[t].pc = "read"
    /\ thr[t].op = "check"
    /\ thr' = [thr EXCEPT ![t].pc = "returned",
                          ![t].result = [NoResult EXCEPT !.kind = "ok",
                                                         !.found = check(registry, thr[t].name)]]
    /\ rwlock' = [rwlock EXCEPT !.readers = DropGuard(@, t)]
    /\ UNCHANGED <<once, registry, facRest>>

\* FunctionFactory::registered_names under the read guard, lines 56-57.
RegisteredNames(t) ==
    /\ thr[t].pc = "read"
    /\ thr[t].op = "registered_names"
    /\ thr' = [thr EXCEPT ![t].pc = "returned",
                          ![t].result = [NoResult EXCEPT !.kind = "ok",
                                                         !.names = registered_names(registry)]]
    /\ rwlock' = [rwlock EXCEPT !.readers = DropGuard(@, t)]
    /\ UNCHANGED <<once, registry, facRest>>

\* The caller evaluates the function get returned.  SleepFunction::eval
\* (sleep.rs 55-92) answers BadArguments or blocks in std::thread::sleep;
\* CrashMeFunction::eval (crash_me.rs 44-46) panics; the others return.
Eval(t) ==
    /\ thr[t].pc = "returned"
    /\ thr[t].op = "get"
    /\ thr[t].result.kind = "ok"
    /\ \/ /\ thr[t].result.creator = "SleepFunction"
          /\ \/ thr' = [thr EXCEPT ![t].pc = "sleeping"]
             \/ thr' = [thr EXCEPT ![t].pc = "evaluated", ![t].result.kind = "BadArguments"]
       \/ /\ thr[t].result.creator = "CrashMeFunction"
          /\ thr' = [thr EXCEPT ![t].pc = "panicked"]
       \/ /\ thr[t].result.creator \notin {"SleepFunction", "CrashMeFunction"}
          /\ thr' = [thr EXCEPT ![t].pc = "evaluated"]
    /\ UNCHANGED <<once, registry, rwlock, facRest>>

\* std::thread::sleep returns, sleep.rs lines 88-89.
Wake(t) ==
    /\ thr[t].pc = "sleeping"
    /\ thr' = [thr EXCEPT ![t].pc = "evaluated"]
    /\ UNCHANGED <<once, registry, rwlock, facRest>>

\* The caller is done with the call and its result.
Return(t) ==
    /\ thr[t].pc \in {"returned", "evaluated"}
    /\ thr' = [thr EXCEPT ![t] = ThrIdle]
    /\ UNCHANGED <<once, registry, rwlock, facRest>>

FacInit ==
    /\ once = OnceNew
    /\ registry = <<>>
    /\ rwlock = RwLockFree
    /\ thr = [t \in Threads |-> ThrIdle]
    /\ block = <<>>
    /\ column_names = <<>>
    /\ fn = <<>>
    /\ pc = <<>>
    /\ row = <<>>
    /\ group_key = <<>>
    /\ group_indices = <<>>
    /\ group_blocks = <<>>
    /\ cmp = CmpIdle
    /\ flt = FltIdle
    /\ adp = AdpIdle
    /\ fnc = FncIdle
    /\ rex = RexIdle

FacNext ==
    \/ \E t \in Threads : Call(t)
    \/ \E t \in Threads : Initialize(t)
    \/ \E t \in Threads : Register(t)
    \/ \E t \in Threads : Insert(t)
    \/ \E t \in Threads : Registered(t)
    \/ \E t \in Threads : InitDone(t)
    \/ \E t \in Threads : Deref(t)
    \/ \E t \in Threads : ReadLock(t)
    \/ \E t \in Threads : Get(t)
    \/ \E t \in Threads : Check(t)
    \/ \E t \in Threads : RegisteredNames(t)
    \/ \E t \in Threads : Eval(t)
    \/ \E t \in Threads : Wake(t)
    \/ \E t \in Threads : Return(t)

\* The steps of a thread inside get, check or registered_names.
Progress(t) ==
    \/ Initialize(t)
    \/ Register(t)
    \/ Insert(t)
    \/ Registered(t)
    \/ InitDone(t)
    \/ Deref(t)
    \/ ReadLock(t)
    \/ Get(t)
    \/ Check(t)
    \/ RegisteredNames(t)

\* A thread inside get, check or registered_names keeps running; whether a
\* caller starts a call, evaluates a function or wakes from sleep is left open.
FacFairness == \A t \in Threads : WF_vars(Progress(t))

SpecFac == FacInit /\ [][FacNext]_vars /\ FacFairness

\* ---- Properties of the function registry ----

\* Every entry the initializer inserts, in the order of lines 30-35.
Builtins ==
    ArithmeticFunction_register \o ComparisonFunction_register \o LogicFunction_register
    \o StringFunction_register \o UdfFunction_register \o HashesFunction_register

RECURSIVE InsertAll(_, _)
\* The map after the inserts of entries, in order.
InsertAll(map, entries) ==
    IF Len(entries) = 0 THEN map
    ELSE InsertAll(insert(map, entries[1][1], entries[1][2]), Tail(entries))

\* The registry once every built-in family is registered, lines 29-36.
FullRegistry == InsertAll(<<>>, Builtins)

\* The lowercase form of an ASCII name, letter by letter.
LowerCased(name) ==
    [i \in DOMAIN name |-> IF 65 <= name[i] /\ name[i] <= 90 THEN name[i] + 32 ELSE name[i]]

\* name is registered under its lowercase form, and with which constructor.
IsRegistered(name) == \E i \in DOMAIN FullRegistry : FullRegistry[i][1] = LowerCased(name)
RegisteredAs(name, creator) ==
    \E i \in DOMAIN FullRegistry : FullRegistry[i] = <<LowerCased(name), creator>>

InList(names, name) == \E i \in DOMAIN names : names[i] = name

HasReturned(t, op) == thr[t].pc = "returned" /\ thr[t].op = op

\* C17: get selects the constructor registered under lowercase(name), so
\* 'plus', 'PLUS', 'Plus' and '+' all reach ArithmeticPlusFunction; a name
\* whose lowercase form is not registered gets UnknownFunction, and no other
\* name does; check(name) is true exactly when get(name, ..) does not fail
\* with UnknownFunction, exactly when lowercase(name) is in registered_names().
C17_LookupIsCaseInsensitive ==
    \A t \in Threads :
        /\ HasReturned(t, "get") =>
              /\ IsRegistered(thr[t].name) <=> thr[t].result.kind # "UnknownFunction"
              /\ thr[t].result.kind = "ok" =>
                    RegisteredAs(thr[t].name, thr[t].result.creator)
              /\ thr[t].name \in {STR_plus, STR_PLUS_upper, STR_Plus_mixed, STR_sym_plus} =>
                    thr[t].result = GetOk("ArithmeticPlusFunction")
        /\ HasReturned(t, "check") =>
              /\ thr[t].result.found <=> IsRegistered(thr[t].name)
              /\ \A a \in ArgumentTypes :
                    thr[t].result.found <=>
                        get(registry, thr[t].name, a).kind # "UnknownFunction"
              /\ thr[t].result.found <=>
                    InList(registered_names(registry), LowerCased(thr[t].name))

\* One thread got ArithmeticPlusFunction for 'PLUS' while the other got
\* UnknownFunction for a name that is not registered.
C17_Witness ==
    \E t, u \in Threads :
        /\ HasReturned(t, "get") /\ thr[t].name = STR_PLUS_upper
        /\ thr[t].result = GetOk("ArithmeticPlusFunction")
        /\ HasReturned(u, "get") /\ thr[u].name = STR_nosuch
        /\ thr[u].result.kind = "UnknownFunction"

\* check answered true for a name written in upper case.
C17_CheckWitness ==
    \E t \in Threads :
        HasReturned(t, "check") /\ thr[t].name = STR_NOT_LIKE_upper /\ thr[t].result.found

\* A thread that is past the dereference of FACTORY and so sees the map.
SeesRegistry(t) == thr[t].pc \in {"lock", "read"}

\* C18: under every interleaving of threads calling get, check and
\* registered_names, racing on the first use included, the registration runs
\* exactly once, no caller sees a registry holding only part of the families,
\* the registry never changes once initialization is complete, every call
\* returns, and a thread asking for the read lock is never kept waiting.
C18_RegistryInitializedOnce ==
    /\ [](once.runs <= 1 /\ (once.state = "done" => once.runs = 1))
    /\ [](\A t \in Threads :
             /\ SeesRegistry(t) => once.state = "done" /\ registry = FullRegistry
             /\ HasReturned(t, "registered_names") =>
                   thr[t].result.names = keys(FullRegistry))
    /\ [][once.state = "done" => registry' = registry /\ once' = once]_vars
    /\ [](\A t \in Threads : thr[t].pc = "lock" => ENABLED ReadLock(t))
    /\ \A t \in Threads : (thr[t].pc = "deref") ~> (thr[t].pc = "returned")

\* Both threads hold the read lock at once, over the registry one of them
\* initialized.
C18_Witness ==
    /\ rwlock.readers = Threads
    /\ once = [state |-> "done", runs |-> 1]
    /\ registry = FullRegistry
    /\ \A t \in Threads : thr[t].pc = "read"

\* One thread runs the initializer while the other waits at the dereference.
C18_RaceWitness ==
    \E t, u \in Threads :
        thr[t].pc = "init" /\ thr[t].step > 2 /\ thr[u].pc = "deref" /\ once.state = "running"

\* A thread blocked inside sleep's eval, or dead inside crashme's.
InSleepOrCrashed(t) == thr[t].pc \in {"sleeping", "panicked"}

HoldsLock(t) == t \in rwlock.readers \/ rwlock.writer = Some(t)

\* A step of thread t inside sleep's or crashme's eval: into it, or out of it.
EvalStepOf(t) ==
    \/ thr[t].pc = "returned" /\ thr'[t].pc \in {"sleeping", "panicked"}
    \/ thr[t].pc = "sleeping" /\ thr'[t].pc = "evaluated"

\* C19: sleep and crashme touch only the calling thread.  A thread inside
\* either eval holds no lock, and its steps there leave the registry, its
\* lock, the initialization cell and every other thread as they were; while
\* it is blocked or dead every other thread can start a call, is granted the
\* read lock, can evaluate the function it got, and has its call return.
C19_SleepAndCrashStayLocal ==
    /\ [](\A t \in Threads : InSleepOrCrashed(t) => ~HoldsLock(t))
    /\ [][\A t \in Threads :
             EvalStepOf(t) =>
                 /\ UNCHANGED <<once, registry, rwlock>>
                 /\ \A u \in Threads \ {t} : thr'[u] = thr[u]]_vars
    /\ [](\A t \in Threads : \A u \in Threads \ {t} :
             InSleepOrCrashed(t) =>
                 /\ thr[u].pc = "idle" => ENABLED Call(u)
                 /\ thr[u].pc = "deref" => ENABLED Deref(u)
                 /\ thr[u].pc = "lock" => ENABLED ReadLock(u)
                 /\ thr[u].pc = "read" /\ thr[u].op = "get" => ENABLED Get(u)
                 /\ HasReturned(u, "get") /\ thr[u].result.kind = "ok" => ENABLED Eval(u))
    /\ \A t \in Threads : \A u \in Threads \ {t} :
          (InSleepOrCrashed(t) /\ thr[u].pc = "deref") ~> (thr[u].pc = "returned")

\* One thread is asleep in sleep's eval while the other has evaluated the
\* function its own get returned.
C19_Witness ==
    \E t \in Threads : \E u \in Threads \ {t} :
        /\ thr[t].pc = "sleeping"
        /\ thr[u].pc = "evaluated" /\ thr[u].op = "get" /\ thr[u].result.kind = "ok"

\* One thread has died in crashme's eval while the other holds the read lock.
C19_CrashWitness ==
    \E t \in Threads : \E u \in Threads \ {t} :
        thr[t].pc = "panicked" /\ thr[u].pc = "read" /\ rwlock.readers = {u}

(***************************************************************************)
(* Further properties of the evaluation adapter.                           *)
(***************************************************************************)

\* The adapter's call has come back, by a return or by a panic.
EvalEnded == adp.pc = "done" /\ adp.result.kind \in {"ok", "panic"}

\* The steps a call may take before the inner eval.
AdapterPaths ==
    {<<>>, <<"strip_null">>, <<"unwrap_const">>, <<"strip_null", "unwrap_const">>}

NoNullTypeArgument == \A k \in 1..Len(adp.columns) : ~IsNullType(adp.columns[k])
SomeNullableArgument == \E k \in 1..Len(adp.columns) : IsNullableType(adp.columns[k])

\* C29: Function2Adapter::eval ends for every argument list and calls the
\* inner eval at most once; nullable wrappers are stripped first and the
\* all-Constant check is made on the stripped columns, with at most one step
\* of each kind; with passthrough_null off the nullable columns reach the
\* inner function as they are; with no argument the call goes straight to the
\* inner function with the same input_rows.
C29_AdapterStepsAreBounded ==
    adp.pc = "done" =>
        /\ EvalEnded
        /\ Len(adp.result.calls) <= 1
        /\ adp.result.steps \in AdapterPaths
        /\ Len(adp.columns) = 0 =>
              /\ adp.result.steps = <<>>
              /\ adp.result.calls = <<adp.input_rows>>
              /\ adp.result.args = <<>>
        /\ (adp.inner.passthrough_null /\ adp.inner.passthrough_constant
               /\ NoNullTypeArgument /\ SomeNullableArgument /\ AllConstant) =>
              /\ adp.result.steps = <<"strip_null", "unwrap_const">>
              /\ \A k \in 1..Len(adp.columns) : adp.result.args[k].validity = None
        /\ (~adp.inner.passthrough_null /\ Len(adp.columns) > 0) =>
              /\ adp.result.steps \in {<<>>, <<"unwrap_const">>}
              /\ \A k \in 1..Len(adp.columns) :
                    adp.result.args[k].validity = adp.columns[k].validity
              /\ adp.result.steps = <<>> => adp.result.args = adp.columns

\* Both steps were taken: every argument is a nullable constant.
C29_Witness ==
    /\ EvalEnded
    /\ Len(adp.columns) = 2
    /\ adp.result.steps = <<"strip_null", "unwrap_const">>
    /\ adp.result.calls = <<1>>

(***************************************************************************)
(* Scalar functions: construction from argument fields (try_create) and    *)
(* evaluation on columns (Function::eval).  A field is its data type and   *)
(* its nullability; a column is an Array or a Constant of one data type.   *)
(***************************************************************************)
\* The longest list of argument fields handed to a constructor.
MaxArguments == 3
\* The rows of the columns a function is evaluated on.
FnRows == 2
\* The ceiling of sleep, in seconds.
SleepCeiling == 3

FnTypes == {"UInt8", "Int8", "Float64", "Boolean", "Utf8"}
UnsignedTypes == {"UInt8"}
SignedTypes == {"Int8"}
FloatTypes == {"Float64"}
\* DataType::is_numeric of the data values crate.
is_numeric(t) == t \in UnsignedTypes \cup SignedTypes \cup FloatTypes

FnField(t, n) == [data_type |-> t, nullable |-> n]
FnFields == {FnField(t, FALSE) : t \in FnTypes} \cup {FnField("Int8", TRUE)}
\* Argument lists: every list of up to two fields, and two fields followed by
\* copies of a third.
ArgumentLists ==
    {<<>>} \cup {<<a>> : a \in FnFields} \cup {<<a, b>> : a, b \in FnFields}
    \cup {<<a, b>> \o SeqOfN(c, n - 2) : a, b, c \in FnFields, n \in 3..MaxArguments}

Creators ==
    {"ArithmeticPlusFunction", "ComparisonGtEqFunction", "ConditionFunction",
     "SleepFunction", "CrashMeFunction", "DatabaseFunction", "UdfExampleFunction",
     "SipHashFunction"}

\* Function::num_arguments: the default of the trait is 0.
num_arguments(creator) ==
    CASE creator = "ArithmeticPlusFunction" -> 0
      [] creator = "ComparisonGtEqFunction" -> 2
      [] creator = "ConditionFunction" -> 3
      [] creator = "SleepFunction" -> 1
      [] creator = "CrashMeFunction" -> 1
      [] creator = "DatabaseFunction" -> 1
      [] creator = "UdfExampleFunction" -> 0
      [] creator = "SipHashFunction" -> 1

\* Function::variadic_arguments: the default of the trait is None.
variadic_arguments(creator) ==
    IF creator = "ArithmeticPlusFunction" THEN Some(<<1, 2>>) ELSE None

\* The argument counts a function declares through the two methods above.
AcceptsCount(creator, n) ==
    IF IsNull(variadic_arguments(creator))
    THEN n = num_arguments(creator)
    ELSE /\ Unwrap(variadic_arguments(creator))[1] <= n
         /\ n <= Unwrap(variadic_arguments(creator))[2]

Created(creator, return_type, nullable) ==
    [kind |-> "ok", err |-> "",
     func |-> Some([creator |-> creator, return_type |-> return_type, nullable |-> nullable])]
CreateErr(code) == [kind |-> "err", err |-> code, func |-> None]
\* `arguments[0]` on an empty Vec: index out of bounds.
CreatePanic == [kind |-> "panic", err |-> "", func |-> None]

\* numerical_arithmetic_coercion of the data values crate: two numeric types
\* have a common numeric type, any other pair has none.
numerical_arithmetic_coercion(a, b) ==
    IF is_numeric(a) /\ is_numeric(b)
    THEN Some(IF a \in FloatTypes \/ b \in FloatTypes THEN "Float64"
              ELSE IF a \in SignedTypes \/ b \in SignedTypes THEN "Int8" ELSE "UInt8")
    ELSE None

ArithmeticFunction_try_create_func(arguments) ==
    IF Len(arguments) = 1
    THEN Created("ArithmeticPlusFunction", arguments[1].data_type, FALSE)
    ELSE IF Len(arguments) < 2 THEN CreatePanic
    ELSE LET t == numerical_arithmetic_coercion(arguments[1].data_type,
                                                arguments[2].data_type)
         IN  IF IsNull(t) THEN CreateErr("BadDataValueType")
             ELSE Created("ArithmeticPlusFunction", Unwrap(t), FALSE)

\* `arguments.len() != 3`
ConditionArityMismatch(arguments) == Len(arguments) # 3

ConditionFunction_try_create(arguments) ==
    IF ConditionArityMismatch(arguments) THEN CreateErr("NumberArgumentsNotMatch")
    ELSE IF Len(arguments) < 3 THEN CreatePanic
    ELSE IF arguments[1].data_type # "Boolean" THEN CreateErr("BadArguments")
    ELSE IF arguments[2].data_type # arguments[3].data_type THEN CreateErr("BadArguments")
    ELSE Created("ConditionFunction", arguments[2].data_type,
                 arguments[2].nullable \/ arguments[3].nullable)

SleepFunction_try_create(arguments) ==
    IF Len(arguments) = 0 THEN CreatePanic
    ELSE IF ~is_numeric(arguments[1].data_type) THEN CreateErr("BadArguments")
    ELSE Created("SleepFunction", "UInt8", FALSE)

SipHashFunction_try_create(arguments) ==
    IF Len(arguments) = 0 THEN CreatePanic
    ELSE IF arguments[1].data_type \in {"UInt8", "Int8", "Float64", "Utf8"}
    THEN Created("SipHashFunction", "UInt64", FALSE)
    ELSE CreateErr("BadArguments")

\* The constructor behind each name, applied to the argument fields.
try_create(creator, arguments) ==
    CASE creator = "ArithmeticPlusFunction" -> ArithmeticFunction_try_create_func(arguments)
      [] creator = "ComparisonGtEqFunction" -> Created(creator, "Boolean", FALSE)
      [] creator = "ConditionFunction" -> ConditionFunction_try_create(arguments)
      [] creator = "SleepFunction" -> SleepFunction_try_create(arguments)
      [] creator = "CrashMeFunction" -> Created(creator, "Null", FALSE)
      [] creator = "DatabaseFunction" -> Created(creator, "Utf8", FALSE)
      [] creator = "UdfExampleFunction" -> Created(creator, "Boolean", FALSE)
      [] creator = "SipHashFunction" -> SipHashFunction_try_create(arguments)

\* ---- columns ----
\* DataColumn::Array(series) and DataColumn::Constant(value, rows): `data` holds
\* the values of the series, or the one value of the constant.
FnArray(t, data) == [kind |-> "Array", data_type |-> t, data |-> data, rows |-> Len(data)]
FnConstant(t, v, rows) == [kind |-> "Constant", data_type |-> t, data |-> <<v>>, rows |-> rows]

\* The values a column of a type is filled with.
FnValues(t) ==
    CASE t \in UnsignedTypes -> {None, Some(0), Some(SleepCeiling - 1), Some(SleepCeiling)}
      [] t \in SignedTypes \cup FloatTypes ->
            {None, Some(0 - 1), Some(0), Some(SleepCeiling - 1), Some(SleepCeiling)}
      [] t = "Boolean" -> {None, Some(FALSE), Some(TRUE)}
      [] OTHER -> {None, Some("a")}
FnDefault(t) ==
    CASE t \in UnsignedTypes \cup SignedTypes \cup FloatTypes -> Some(1)
      [] t = "Boolean" -> Some(TRUE)
      [] OTHER -> Some("a")

\* The columns bound to the first argument: any constant, any Boolean
\* array, one array of the other types.
FirstColumns(t) ==
    {FnConstant(t, v, FnRows) : v \in FnValues(t)}
    \cup (IF t = "Boolean" THEN {FnArray(t, d) : d \in [1..FnRows -> FnValues(t)]}
          ELSE {FnArray(t, SeqOfN(FnDefault(t), FnRows))})
\* The columns bound to a later argument.
LaterColumns(t) ==
    {FnConstant(t, FnDefault(t), FnRows), FnArray(t, SeqOfN(FnDefault(t), FnRows))}

\* The lists of columns that match a list of argument fields.
ColumnsMatching(arguments) ==
    IF Len(arguments) = 0 THEN {<<>>}
    ELSE IF Len(arguments) = 1
    THEN {<<c>> : c \in FirstColumns(arguments[1].data_type)}
    ELSE {<<c, d>> \o [i \in 1..(Len(arguments) - 2) |->
                         IF e = "Array"
                         THEN FnArray(arguments[i + 2].data_type,
                                      SeqOfN(FnDefault(arguments[i + 2].data_type), FnRows))
                         ELSE FnConstant(arguments[i + 2].data_type,
                                         FnDefault(arguments[i + 2].data_type), FnRows)] :
            c \in FirstColumns(arguments[1].data_type),
            d \in LaterColumns(arguments[2].data_type),
            e \in {"Array", "Constant"}}

EvalOk(col) == [kind |-> "ok", err |-> "", col |-> Some(col), slept |-> None]
EvalErr(code) == [kind |-> "err", err |-> code, col |-> None, slept |-> None]
EvalPanic == [kind |-> "panic", err |-> "", col |-> None, slept |-> None]

\* `seconds.ge(&Duration::from_secs(3))`
TooLong(seconds) == seconds >= SleepCeiling

\* The match on the constant of sleep: the Duration it asks for, <<"none">>
\* for the catch-all arm, <<"panic">> where Duration::from_secs_f64 is
\* handed a negative value.
SleepSeconds(col) ==
    LET value == col.data[1]
    IN  CASE col.data_type \in UnsignedTypes /\ ~IsNull(value) -> <<"secs", Unwrap(value)>>
          [] col.data_type \in SignedTypes /\ ~IsNull(value) /\ Unwrap(value) > 0 ->
                <<"secs", Unwrap(value)>>
          [] col.data_type \in FloatTypes /\ ~IsNull(value) ->
                IF Unwrap(value) < 0 THEN <<"panic">> ELSE <<"secs", Unwrap(value)>>
          [] OTHER -> <<"none">>

SleepFunction_eval(columns) ==
    IF Len(columns) = 0 THEN EvalPanic
    ELSE IF columns[1].kind = "Array" THEN EvalErr("BadArguments")
    ELSE LET seconds == SleepSeconds(columns[1])
         IN  IF seconds[1] = "none" THEN EvalErr("BadArguments")
             ELSE IF seconds[1] = "panic" THEN EvalPanic
             ELSE IF TooLong(seconds[2]) THEN EvalErr("BadArguments")
             ELSE [EvalOk(FnConstant("UInt8", Some(0), columns[1].rows))
                       EXCEPT !.slept = Some(seconds[2])]

\* DataColumn::to_array: a constant becomes an array of its rows.
FnToArray(col) ==
    IF col.kind = "Array" THEN col ELSE FnArray(col.data_type, SeqOfN(col.data[1], col.rows))

\* ConditionFunction::if_then_else: per row the left value where the flag is
\* true, else the right value, in an array of the type of the left; only
\* the numeric types have an arm.
if_then_else(predicate, lhs, rhs) ==
    IF is_numeric(lhs.data_type)
    THEN EvalOk(FnArray(lhs.data_type,
                        [i \in 1..Len(predicate) |->
                            IF predicate[i] = Some(TRUE) THEN lhs.data[i] ELSE rhs.data[i]]))
    ELSE EvalErr("BadDataValueType")

ConditionFunction_eval(columns) ==
    IF Len(columns) < 3 THEN EvalPanic
    ELSE LET flag_values == columns[1]
             true_values == columns[2]
             false_values == columns[3]
         IN  IF flag_values.kind = "Constant"
             THEN IF IsNull(flag_values.data[1]) THEN EvalOk(false_values)
                  ELSE IF flag_values.data_type # "Boolean" THEN EvalErr("BadDataValueType")
                  ELSE IF ~Unwrap(flag_values.data[1]) THEN EvalOk(false_values)
                  ELSE EvalOk(true_values)
             ELSE IF flag_values.data_type # "Boolean" THEN EvalErr("BadDataValueType")
             ELSE if_then_else(flag_values.data, FnToArray(true_values),
                               FnToArray(false_values))

\* ComparisonFunction::eval: `columns[0].compare(op, &columns[1])`; the
\* kernels answer with a Boolean array of the rows, or not at all for two
\* columns of different types.
ComparisonFunction_eval(columns) ==
    IF Len(columns) < 2 THEN EvalPanic
    ELSE IF columns[1].data_type # columns[2].data_type
              /\ ~(is_numeric(columns[1].data_type) /\ is_numeric(columns[2].data_type))
    THEN EvalErr("BadDataValueType")
    ELSE EvalOk(FnArray("Boolean",
                        [i \in 1..columns[1].rows |->
                            IF IsNull(FnToArray(columns[1]).data[i])
                               \/ IsNull(FnToArray(columns[2]).data[i])
                            THEN None
                            ELSE Some(FnToArray(columns[1]).data[i]
                                      = FnToArray(columns[2]).data[i])]))

\* DatabaseFunction::eval: `columns[0].clone()`.
DatabaseFunction_eval(columns) ==
    IF Len(columns) = 0 THEN EvalPanic ELSE EvalOk(columns[1])

\* Function::eval of the instance a constructor returned.
eval_function(func, columns, input_rows) ==
    CASE func.creator = "ComparisonGtEqFunction" -> ComparisonFunction_eval(columns)
      [] func.creator = "ConditionFunction" -> ConditionFunction_eval(columns)
      [] func.creator = "SleepFunction" -> SleepFunction_eval(columns)
      [] func.creator = "CrashMeFunction" -> EvalPanic
      [] func.creator = "DatabaseFunction" -> DatabaseFunction_eval(columns)
      [] func.creator = "UdfExampleFunction" ->
            EvalOk(FnConstant("Boolean", Some(TRUE), input_rows))

\* The functions whose eval is written in these sources: the arithmetic
\* and hashing kernels behind the other two are not.
EvalCreators == Creators \ {"ArithmeticPlusFunction", "SipHashFunction"}

\* ---- the calls ----
\* The constructor runs on the argument fields.
TryCreate ==
    /\ fnc.pc = "call"
    /\ fnc' = [fnc EXCEPT !.pc = "created",
                          !.created = try_create(fnc.creator, fnc.arguments)]
    /\ UNCHANGED fncRest

\* The function that was returned is evaluated on columns matching its fields.
FnEval ==
    /\ fnc.pc = "created"
    /\ fnc.created.kind = "ok"
    /\ fnc.creator \in EvalCreators
    /\ \E columns \in ColumnsMatching(fnc.arguments) :
           fnc' = [fnc EXCEPT !.pc = "evaluated", !.columns = columns,
                              !.input_rows = FnRows,
                              !.result = eval_function(Unwrap(fnc.created.func), columns,
                                                       FnRows)]
    /\ UNCHANGED fncRest

FnInit ==
    /\ KernelsIdle
    /\ rex = RexIdle
    /\ \E creator \in Creators, arguments \in ArgumentLists :
           fnc = [FncIdle EXCEPT !.pc = "call", !.creator = creator,
                                 !.arguments = arguments]

FnNext ==
    \/ TryCreate
    \/ FnEval

SpecFn == FnInit /\ [][FnNext]_vars

(***************************************************************************)
(* Properties of the scalar functions.                                     *)
(***************************************************************************)
FnCreated == fnc.pc \in {"created", "evaluated"}
FnEvaluated == fnc.pc = "evaluated"
IntegerTypes == UnsignedTypes \cup SignedTypes

\* C21: constructing a scalar function with a number of argument fields it
\* does not accept (not num_arguments, or outside the variadic range, zero
\* included) returns NumberArgumentsNotMatch: no panic, no function instance.
C21_UnacceptedCountIsArityError ==
    (FnCreated /\ ~AcceptsCount(fnc.creator, Len(fnc.arguments)))
        => (fnc.created.kind = "err" /\ fnc.created.err = "NumberArgumentsNotMatch")

\* The part of C21 the code keeps: `if` answers every count but three with
\* the arity error.
C21_ConditionChecksArity ==
    fnc.creator = "ConditionFunction" => C21_UnacceptedCountIsArityError

\* C24: sleep on an Array argument returns BadArguments; on a Constant
\* integer v of any signedness it sleeps and returns Constant(UInt8 0) with
\* the rows of the argument exactly when 0 <= v < 3; every other constant
\* is BadArguments without sleeping; no eval sleeps 3 seconds or longer.
C24_SleepIsBoundedAndRejects ==
    (FnEvaluated /\ fnc.creator = "SleepFunction")
        => LET c == fnc.columns[1]
               r == fnc.result
               slept == ~IsNull(r.slept)
               rejected == r.kind = "err" /\ r.err = "BadArguments" /\ ~slept
           IN  /\ c.kind = "Array" => rejected
               /\ (c.kind = "Constant" /\ c.data_type \in IntegerTypes)
                     => IF ~IsNull(c.data[1]) /\ 0 <= Unwrap(c.data[1])
                           /\ Unwrap(c.data[1]) < SleepCeiling
                        THEN /\ r.kind = "ok"
                             /\ slept
                             /\ Unwrap(r.col) = FnConstant("UInt8", Some(0), c.rows)
                        ELSE rejected
               /\ slept => Unwrap(r.slept) < SleepCeiling

\* The part of C24 the code keeps: everything but a signed zero.
C24_HoldsOffSignedZero ==
    (FnEvaluated /\ fnc.creator = "SleepFunction"
       /\ ~(fnc.columns[1].kind = "Constant" /\ fnc.columns[1].data_type \in SignedTypes
            /\ fnc.columns[1].data[1] = Some(0)))
        => C24_SleepIsBoundedAndRejects

\* C26: whenever eval succeeds on columns matching the argument fields the
\* function was constructed with, the data type of the returned column is
\* the type return_type() reports.
C26_EvalTypeIsReturnType ==
    (FnEvaluated /\ fnc.result.kind = "ok")
        => Unwrap(fnc.result.col).data_type = Unwrap(fnc.created.func).return_type

\* The part of C26 the code keeps: every function evaluated here but database().
C26_HoldsOffDatabase ==
    fnc.creator # "DatabaseFunction" => C26_EvalTypeIsReturnType

(***************************************************************************)
(* Plan expressions (plan_expression.rs) and their rewriting               *)
(* (expr_common.rs).  An Expression is a record: its kind, its name (the   *)
(* alias, the column, the literal as printed, the operator), one attribute *)
(* (distinct, the sort direction, the target type of a cast) and its       *)
(* child expressions in order.  A WindowFunction keeps its arguments,      *)
(* partition_by and order_by expressions in that order as its children.    *)
(***************************************************************************)
\* The deepest nesting of the expressions that are enumerated.
MaxDepth == 2

Expr(kind, name, attr, args) == [kind |-> kind, name |-> name, attr |-> attr, args |-> args]
Alias(name, e) == Expr("Alias", name, "", <<e>>)
Column(name) == Expr("Column", name, "", <<>>)
Literal(text, data_type) == Expr("Literal", text, data_type, <<>>)
UnaryExpression(op, e) == Expr("UnaryExpression", op, "", <<e>>)
BinaryExpression(left, op, right) == Expr("BinaryExpression", op, "", <<left, right>>)
ScalarFunction(op, args) == Expr("ScalarFunction", op, "", args)
AggregateFunction(op, distinct, args) ==
    Expr("AggregateFunction", op, IF distinct THEN "distinct" ELSE "", args)
Sort(e, asc) == Expr("Sort", "", IF asc THEN "asc" ELSE "desc", <<e>>)
Wildcard == Expr("Wildcard", "", "", <<>>)
Cast(e, data_type) == Expr("Cast", "", data_type, <<e>>)
WindowFunction(op, args) == Expr("WindowFunction", op, "", args)

\* OP_SET and the lower-casing of the names that are looked up in it.
OP_SET == {"database", "version"}
op_to_lowercase(op) ==
    CASE op = "DATABASE" -> "database"
      [] op = "IF" -> "if"
      [] OTHER -> op

RECURSIVE Debug(_)
RECURSIVE DebugArgs(_, _)
\* The loop over args of the Debug impl: the arguments from the i-th on,
\* separated by ", ".
DebugArgs(args, i) ==
    IF i > Len(args) THEN ""
    ELSE (IF i > 1 THEN ", " ELSE "") \o Debug(args[i]) \o DebugArgs(args, i + 1)
\* impl fmt::Debug for Expression.
Debug(e) ==
    CASE e.kind = "Alias" -> Debug(e.args[1]) \o " as " \o e.name
      [] e.kind = "Column" -> e.name
      [] e.kind = "Literal" -> e.name
      [] e.kind = "BinaryExpression" ->
            "(" \o Debug(e.args[1]) \o " " \o e.name \o " " \o Debug(e.args[2]) \o ")"
      [] e.kind = "UnaryExpression" -> "(" \o e.name \o " " \o Debug(e.args[1]) \o ")"
      [] e.kind = "ScalarFunction" -> e.name \o "(" \o DebugArgs(e.args, 1) \o ")"
      [] e.kind = "AggregateFunction" ->
            e.name \o "(" \o (IF e.attr = "distinct" THEN "distinct " ELSE "")
                   \o DebugArgs(e.args, 1) \o ")"
      [] e.kind = "Sort" -> Debug(e.args[1])
      [] e.kind = "Wildcard" -> "*"
      [] e.kind = "Cast" -> "cast(" \o Debug(e.args[1]) \o " as " \o e.attr \o ")"
      [] e.kind = "WindowFunction" -> e.name \o "(" \o DebugArgs(e.args, 1) \o ")"

\* Expression::column_name.
column_name(e) ==
    CASE e.kind = "Alias" -> e.name
      [] e.kind = "ScalarFunction" ->
            IF op_to_lowercase(e.name) \in OP_SET THEN e.name \o "()" ELSE Debug(e)
      [] OTHER -> Debug(e)

\* ---- the expressions that are enumerated ----
Leaves ==
    {Column("a"), Column("b"), Column("c"), Literal("1", "UInt8"), Wildcard,
     ScalarFunction("database", <<>>), ScalarFunction("DATABASE", <<>>),
     ScalarFunction("nosuch", <<>>)}
\* The expressions with e as their first child.
Around(e) ==
    {Alias("x", e), UnaryExpression("-", e), BinaryExpression(e, "+", Column("a")),
     ScalarFunction("database", <<e>>), ScalarFunction("nosuch", <<e>>),
     ScalarFunction("if", <<Column("t"), e, Column("a")>>),
     AggregateFunction("sum", FALSE, <<e>>), Sort(e, TRUE), Cast(e, "Utf8"),
     WindowFunction("rank", <<e, Column("a")>>)}
RECURSIVE ExprsOfDepth(_)
ExprsOfDepth(d) ==
    IF d = 0 THEN Leaves
    ELSE Leaves \cup UNION {Around(e) : e \in ExprsOfDepth(d - 1)}
Exprs == ExprsOfDepth(MaxDepth)

\* Expression::column_name is called on an expression.
CallColumnName ==
    /\ rex.pc = "call"
    /\ rex.op = "column_name"
    /\ rex' = [rex EXCEPT !.pc = "done", !.result = column_name(rex.expr)]
    /\ UNCHANGED rexRest

\* ---- static resolution: Expression::to_data_type / nullable / to_data_field ----
DataField_new(name, data_type, nullability) ==
    [name |-> name, data_type |-> data_type, nullable |-> nullability]
\* The input schema: a and t are not nullable, b is; there is no column c.
InputSchema ==
    {DataField_new("a", "UInt8", FALSE), DataField_new("b", "Int8", TRUE),
     DataField_new("t", "Boolean", FALSE)}

ResOk(v) == [kind |-> "ok", err |-> "", value |-> Some(v)]
ResErr(code) == [kind |-> "err", err |-> code, value |-> None]
ResPanic == [kind |-> "panic", err |-> "", value |-> None]
\* `?` on a result that is not Ok: the error (or the unwinding) as it is.
Failed(r) == [kind |-> r.kind, err |-> r.err, value |-> None]

\* DataSchema::field_with_name: the field of that name, an error where the
\* schema has none.
field_with_name(schema, name) ==
    IF \E f \in schema : f.name = name
    THEN ResOk(CHOOSE f \in schema : f.name = name)
    ELSE ResErr("UnknownColumn")

\* The constructors registered under the names the expressions use ("-" is
\* registered with the same ArithmeticFunction constructor as "+").
RegisteredCreator(name) ==
    CASE name \in {"+", "-"} -> Some("ArithmeticPlusFunction")
      [] name = "database" -> Some("DatabaseFunction")
      [] name = "if" -> Some("ConditionFunction")
      [] OTHER -> None

\* FunctionFactory::get: the lower-cased name is looked up, the constructor
\* found is run on the argument fields.
FunctionFactory_get(name, arg_fields) ==
    LET creator == RegisteredCreator(op_to_lowercase(name))
    IN  IF IsNull(creator) THEN ResErr("UnknownFunction")
        ELSE LET made == try_create(Unwrap(creator), arg_fields)
             IN  IF made.kind = "ok" THEN ResOk(Unwrap(made.func))
                 ELSE [kind |-> made.kind, err |-> made.err, value |-> None]

\* AggregateFunctionFactory::get: sum is registered and has the type of its
\* argument; no other name is.
AggregateFunctionFactory_get(func_name, fields) ==
    IF func_name = "sum" /\ Len(fields) = 1
    THEN ResOk([creator |-> "sum", return_type |-> fields[1].data_type, nullable |-> FALSE])
    ELSE ResErr("UnknownAggregateFunction")

\* `arg_fields.push(arg.to_data_field(input_schema)?)` over the arguments,
\* given the result of to_data_field of each: the first failure, else the fields.
arg_fields(fields) ==
    LET failed == {i \in 1..Len(fields) : fields[i].kind # "ok"}
    IN  IF failed # {}
        THEN Failed(fields[CHOOSE i \in failed : \A j \in failed : i <= j])
        ELSE ResOk([i \in 1..Len(fields) |-> Unwrap(fields[i].value)])

\* Expression::to_aggregate_function, given the fields of the arguments.
to_aggregate_function(e, fields) ==
    IF e.kind # "AggregateFunction" THEN ResErr("LogicalError")
    ELSE IF fields.kind # "ok" THEN Failed(fields)
    ELSE AggregateFunctionFactory_get(
             e.name \o (IF e.attr = "distinct" THEN "Distinct" ELSE ""),
             Unwrap(fields.value))

\* The function an operator or function node names, built on the fields of
\* its arguments: `FunctionFactory::get(op, arg_fields)?`.
FunctionOf(e, fields) ==
    IF e.kind = "AggregateFunction" THEN to_aggregate_function(e, fields)
    ELSE IF fields.kind # "ok" THEN Failed(fields)
    ELSE FunctionFactory_get(e.name, Unwrap(fields.value))

\* The mutant of the and_then of to_data_field: a field is made from the
\* type alone.
and_then_typeOnly(name, return_type, nullability) ==
    IF return_type.kind # "ok" THEN Failed(return_type)
    ELSE ResOk(DataField_new(name, Unwrap(return_type.value),
                             IF nullability.kind = "ok" THEN Unwrap(nullability.value)
                             ELSE FALSE))
\* `to_data_type(..).and_then(|return_type| nullable(..).map(|nullable|
\* DataField::new(&name, return_type, nullable)))`.
and_then(name, return_type, nullability) ==
    IF return_type.kind # "ok" THEN Failed(return_type)
    ELSE IF nullability.kind # "ok" THEN Failed(nullability)
    ELSE ResOk(DataField_new(name, Unwrap(return_type.value), Unwrap(nullability.value)))

RECURSIVE Resolve(_, _)
\* Expression::to_data_type, Expression::nullable and Expression::to_data_field
\* of one expression, from the three results of each of its children.
Resolve(e, input_schema) ==
    LET child == [i \in 1..Len(e.args) |-> Resolve(e.args[i], input_schema)]
        column == field_with_name(input_schema, e.name)
        func == FunctionOf(e, arg_fields([i \in 1..Len(e.args) |-> child[i].field]))
        return_type ==
            CASE e.kind \in {"Alias", "Sort"} -> child[1].data_type
              [] e.kind = "Column" ->
                    IF column.kind # "ok" THEN Failed(column)
                    ELSE ResOk(Unwrap(column.value).data_type)
              [] e.kind = "Literal" -> ResOk(e.attr)
              [] e.kind = "Exists" -> ResOk("Boolean")
              [] e.kind \in {"BinaryExpression", "UnaryExpression", "ScalarFunction",
                             "AggregateFunction"} ->
                    IF func.kind # "ok" THEN Failed(func)
                    ELSE ResOk(Unwrap(func.value).return_type)
              [] e.kind = "Wildcard" -> ResErr("IllegalDataType")
              [] e.kind = "Cast" -> ResOk(e.attr)
        nullability ==
            CASE e.kind \in {"Alias", "Sort", "Cast"} -> child[1].nullable
              [] e.kind = "Column" ->
                    IF column.kind # "ok" THEN Failed(column)
                    ELSE ResOk(Unwrap(column.value).nullable)
              [] e.kind = "Literal" -> ResOk(FALSE)
              [] e.kind = "Exists" -> ResOk(FALSE)
              [] e.kind \in {"BinaryExpression", "UnaryExpression", "ScalarFunction",
                             "AggregateFunction"} ->
                    IF func.kind # "ok" THEN Failed(func)
                    ELSE ResOk(Unwrap(func.value).nullable)
              [] e.kind = "Wildcard" -> ResErr("IllegalDataType")
    IN  [data_type |-> return_type, nullable |-> nullability,
         field |-> and_then(column_name(e), return_type, nullability)]

to_data_type(e, input_schema) == Resolve(e, input_schema).data_type
nullable(e, input_schema) == Resolve(e, input_schema).nullable
to_data_field(e, input_schema) == Resolve(e, input_schema).field

RECURSIVE HasKind(_, _)
\* Whether a node of that kind occurs in the expression.
HasKind(e, kind) ==
    \/ e.kind = kind
    \/ \E i \in 1..Len(e.args) : HasKind(e.args[i], kind)

\* The three resolutions are called on an expression of the enum of
\* plan_expression.rs.
CallResolve ==
    /\ rex.pc = "call"
    /\ rex.op = "to_data_field"
    /\ rex' = [rex EXCEPT !.pc = "done",
                          !.result = [data_type |-> to_data_type(rex.expr, InputSchema),
                                      nullable |-> nullable(rex.expr, InputSchema),
                                      field |-> to_data_field(rex.expr, InputSchema)]]
    /\ UNCHANGED rexRest

\* ---- rewriting: clone_with_replacement and the functions built on it ----
\* The closures handed to clone_with_replacement.  The one of the callers
\* outside this file is any function of the node: here it answers Err on
\* the nodes in `errs`, Some(replacement) on the nodes in `targets`, else None.
GenericFn(targets, replacement, errs) ==
    [mode |-> "generic", targets |-> targets, replacement |-> replacement, errs |-> errs]
UnwrapAliasFn == [mode |-> "unwrap_alias"]
RebaseFn(base_exprs) == [mode |-> "rebase", base_exprs |-> base_exprs]
ResolveAliasesFn(aliases) == [mode |-> "resolve_aliases", aliases |-> aliases]

FnSome(e) == [kind |-> "Some", expr |-> Some(e)]
FnNone == [kind |-> "None", expr |-> None]
FnErr == [kind |-> "Err", expr |-> None]

\* Vec::contains / slice::contains.
contains(seq, e) == \E i \in 1..Len(seq) : seq[i] = e

\* expr_as_column_expr.
expr_as_column_expr(e) == IF e.kind = "Column" THEN e ELSE Column(column_name(e))

\* The closure called on one node.
replacement_fn(f, e) ==
    CASE f.mode = "generic" ->
            IF e \in f.errs THEN FnErr
            ELSE IF e \in f.targets THEN FnSome(f.replacement) ELSE FnNone
      [] f.mode = "unwrap_alias" ->
            IF e.kind = "Alias" THEN FnSome(e.args[1]) ELSE FnNone
      [] f.mode = "rebase" ->
            IF contains(f.base_exprs, e) THEN FnSome(expr_as_column_expr(e)) ELSE FnNone
      [] f.mode = "resolve_aliases" ->
            IF e.kind = "Column" /\ e.name \in DOMAIN f.aliases
            THEN FnSome(f.aliases[e.name]) ELSE FnNone

\* The result of a traversal: the expression or the error, and the calls
\* of the closure in order, each with the path of the node it was called on
\* (the child indices from the root).
CloneOk(e, calls) == [ok |-> TRUE, expr |-> Some(e), calls |-> calls]
CloneErr(calls) == [ok |-> FALSE, expr |-> None, calls |-> calls]

\* The kinds whose arm returns the node itself: Wildcard, Column, Literal
\* and (line 313) WindowFunction.
ClonedWhole(e) == e.kind \in {"Wildcard", "Column", "Literal", "WindowFunction"}

RECURSIVE clone_with_replacement(_, _, _)
RECURSIVE clone_children(_, _, _, _)
\* The children from the i-th on, rewritten in order; the first Err ends it.
clone_children(args, f, path, i) ==
    IF i > Len(args) THEN [ok |-> TRUE, exprs |-> <<>>, calls |-> <<>>]
    ELSE LET head == clone_with_replacement(args[i], f, path \o <<i>>)
         IN  IF ~head.ok THEN [ok |-> FALSE, exprs |-> <<>>, calls |-> head.calls]
             ELSE LET tail == clone_children(args, f, path, i + 1)
                  IN  [ok |-> tail.ok,
                       exprs |-> <<Unwrap(head.expr)>> \o tail.exprs,
                       calls |-> head.calls \o tail.calls]

\* The mutant of clone_with_replacement: the children are rewritten first,
\* the node is tested after them.
clone_with_replacement_postOrder(e, f, path) ==
    LET children == IF ClonedWhole(e) THEN [ok |-> TRUE, exprs |-> e.args, calls |-> <<>>]
                    ELSE clone_children(e.args, f, path, 1)
        answer == replacement_fn(f, e)
        calls == children.calls \o << <<path, e>> >>
    IN  IF ~children.ok THEN CloneErr(children.calls)
        ELSE IF answer.kind = "Err" THEN CloneErr(calls)
        ELSE IF answer.kind = "Some" THEN CloneOk(Unwrap(answer.expr), calls)
        ELSE CloneOk([e EXCEPT !.args = children.exprs], calls)

\* clone_with_replacement on the node at `path`.
clone_with_replacement(e, f, path) ==
    LET answer == replacement_fn(f, e)
        call == << <<path, e>> >>
    IN  IF answer.kind = "Err" THEN CloneErr(call)
        ELSE IF answer.kind = "Some" THEN CloneOk(Unwrap(answer.expr), call)
        ELSE IF ClonedWhole(e) THEN CloneOk(e, call)
        ELSE LET children == clone_children(e.args, f, path, 1)
             IN  IF ~children.ok THEN CloneErr(call \o children.calls)
                 ELSE CloneOk([e EXCEPT !.args = children.exprs], call \o children.calls)

\* unwrap_alias_exprs, rebase_expr, resolve_aliases_to_exprs.
unwrap_alias_exprs(e) == clone_with_replacement(e, UnwrapAliasFn, <<>>)
rebase_expr(e, base_exprs) == clone_with_replacement(e, RebaseFn(base_exprs), <<>>)
resolve_aliases_to_exprs(e, aliases) ==
    clone_with_replacement(e, ResolveAliasesFn(aliases), <<>>)

\* clone_with_replacement is called with a closure.
CallCloneWithReplacement ==
    /\ rex.pc = "call"
    /\ rex.op = "clone_with_replacement"
    /\ rex' = [rex EXCEPT !.pc = "done",
                          !.result = clone_with_replacement(rex.expr, rex.f, <<>>)]
    /\ UNCHANGED rexRest

\* unwrap_alias_exprs is called, and once more on its result.
CallUnwrapAliasExprs ==
    /\ rex.pc = "call"
    /\ rex.op = "unwrap_alias_exprs"
    /\ rex' = [rex EXCEPT !.pc = "done",
                          !.result = [once |-> unwrap_alias_exprs(rex.expr),
                                      twice |-> unwrap_alias_exprs(
                                                    Unwrap(unwrap_alias_exprs(rex.expr).expr))]]
    /\ UNCHANGED rexRest

\* ---- the aggregate check of PlanParser::select_to_plan ----
RECURSIVE find_exprs_in_expr(_, _)
RECURSIVE find_in_children(_, _, _)
RECURSIVE Dedup(_)
\* `if !acc.contains(&expr) { acc.push(expr) }` over a sequence.
Dedup(seq) ==
    IF Len(seq) = 0 THEN <<>>
    ELSE LET init == Dedup(SubSeq(seq, 1, Len(seq) - 1))
         IN  IF contains(init, seq[Len(seq)]) THEN init ELSE Append(init, seq[Len(seq)])
find_in_children(args, kind, i) ==
    IF i > Len(args) THEN <<>>
    ELSE find_exprs_in_expr(args[i], kind) \o find_in_children(args, kind, i + 1)
\* find_exprs_in_expr with the test `matches!(e, Expression::<kind>)`: the
\* Finder visits a node before its children and stops below a match.
find_exprs_in_expr(e, kind) ==
    IF e.kind = kind THEN <<e>> ELSE Dedup(find_in_children(e.args, kind, 1))
RECURSIVE FlatMap(_, _, _)
FlatMap(exprs, kind, i) ==
    IF i > Len(exprs) THEN <<>>
    ELSE find_exprs_in_expr(exprs[i], kind) \o FlatMap(exprs, kind, i + 1)
\* find_exprs_in_exprs, find_aggregate_exprs, find_column_exprs.
find_exprs_in_exprs(exprs, kind) == Dedup(FlatMap(exprs, kind, 1))
find_aggregate_exprs(exprs) == find_exprs_in_exprs(exprs, "AggregateFunction")
find_column_exprs(exprs) == find_exprs_in_exprs(exprs, "Column")

RECURSIVE extract_aliases_from(_, _)
\* extract_aliases: the HashMap collected from the aliases among the first
\* i expressions, a later alias of the same name replacing an earlier one.
extract_aliases_from(exprs, i) ==
    IF i = 0 THEN <<>>
    ELSE LET before == extract_aliases_from(exprs, i - 1)
         IN  IF exprs[i].kind = "Alias"
             THEN [n \in (DOMAIN before) \cup {exprs[i].name} |->
                       IF n = exprs[i].name THEN exprs[i].args[1] ELSE before[n]]
             ELSE before
extract_aliases(exprs) == extract_aliases_from(exprs, Len(exprs))

\* find_columns_not_satisfy_exprs.
find_columns_not_satisfy_exprs(columns, exprs) ==
    IF \E i \in 1..Len(columns) : columns[i].kind # "Column" THEN ResErr("SyntaxException")
    ELSE LET found == find_column_exprs(exprs)
             missing == {i \in 1..Len(found) : ~contains(columns, found[i])}
         IN  IF missing = {} THEN ResOk(None)
             ELSE ResOk(Some(found[CHOOSE i \in missing : \A j \in missing : i <= j]))

\* Lines 397-516 of select_to_plan on the expressions of the projection,
\* GROUP BY, HAVING and ORDER BY: the error it returns, or its passing on,
\* with the expression lists it built.
select_to_plan(projection_exprs, group_by, having, order_by) ==
    LET aliases == extract_aliases(projection_exprs)
        resolved(e) == Unwrap(resolve_aliases_to_exprs(e, aliases).expr)
        group_by_exprs == [i \in 1..Len(group_by) |-> resolved(group_by[i])]
        having_expr_opt == IF IsNull(having) THEN None ELSE Some(resolved(Unwrap(having)))
        order_by_exprs == [i \in 1..Len(order_by) |-> Sort(resolved(order_by[i]), TRUE)]
        expression_exprs == projection_exprs \o order_by_exprs \o having_expr_opt
        aggr_exprs == find_aggregate_exprs(expression_exprs)
        has_aggr == Len(aggr_exprs) + Len(group_by_exprs) > 0
        aggr_projection_exprs == group_by_exprs \o aggr_exprs
        column_exprs_post_aggr ==
            [i \in 1..Len(aggr_projection_exprs) |->
                expr_as_column_expr(aggr_projection_exprs[i])]
        rebased(e) == Unwrap(rebase_expr(e, aggr_projection_exprs).expr)
        select_exprs_post_aggr ==
            [i \in 1..Len(expression_exprs) |-> rebased(expression_exprs[i])]
        not_satisfied ==
            find_columns_not_satisfy_exprs(column_exprs_post_aggr, select_exprs_post_aggr)
        having_not_satisfied ==
            find_columns_not_satisfy_exprs(column_exprs_post_aggr,
                                           <<rebased(Unwrap(having_expr_opt))>>)
        locals == [expression_exprs |-> expression_exprs,
                   group_by_exprs |-> group_by_exprs,
                   aggr_exprs |-> aggr_exprs, has_aggr |-> has_aggr]
    IN  IF ~has_aggr THEN [err |-> "", locals |-> locals]
        ELSE IF not_satisfied.kind = "ok" /\ ~IsNull(Unwrap(not_satisfied.value))
        THEN [err |-> "IllegalAggregateExp", locals |-> locals]
        ELSE IF ~IsNull(having_expr_opt) /\ having_not_satisfied.kind = "ok"
                /\ ~IsNull(Unwrap(having_not_satisfied.value))
        THEN [err |-> "IllegalAggregateExp", locals |-> locals]
        ELSE [err |-> "", locals |-> locals]

\* select_to_plan reaches its aggregate check.
CallSelectToPlan ==
    /\ rex.pc = "call"
    /\ rex.op = "select_to_plan"
    /\ rex' = [rex EXCEPT !.pc = "done",
                          !.result = select_to_plan(rex.select.projection, rex.select.group_by,
                                                    rex.select.having, rex.select.order_by)]
    /\ UNCHANGED rexRest

\* ---- the calls that are enumerated ----
\* The longest projection of a SELECT.
MaxProjection == 2
\* The closures tried on clone_with_replacement.
Closures ==
    {GenericFn(targets, replacement, errs) :
        targets \in {{}, {Column("a")}, {Alias("x", Column("a"))},
                     {WindowFunction("rank", <<Column("a"), Column("a")>>)}},
        replacement \in {Column("r"), UnaryExpression("-", Column("a"))},
        errs \in {{}, {Column("b")}}}
\* The expressions of a SELECT: columns, aggregates and expressions over
\* them, an alias, and a column that carries the name of an aggregate.
SelectExprs ==
    {Column("a"), Column("b"), AggregateFunction("sum", FALSE, <<Column("a")>>),
     BinaryExpression(Column("a"), "+", Literal("1", "UInt8")),
     BinaryExpression(AggregateFunction("sum", FALSE, <<Column("b")>>), "+", Column("a")),
     Alias("x", Column("b")), Column("sum(a)")}
Selects ==
    [projection : UNION {[1..n -> SelectExprs] : n \in 1..MaxProjection},
     group_by : {<<>>, <<Column("a")>>, <<Column("x")>>,
                 <<BinaryExpression(Column("a"), "+", Literal("1", "UInt8"))>>},
     having : {None, Some(Column("b")),
               Some(AggregateFunction("sum", FALSE, <<Column("a")>>))},
     order_by : {<<>>, <<Column("x")>>}]

RexCall(op, e, f, select) ==
    [RexIdle EXCEPT !.pc = "call", !.op = op, !.expr = e, !.f = f, !.select = select]

RexInit ==
    /\ KernelsIdle
    /\ fnc = FncIdle
    /\ \/ \E e \in Exprs : rex = RexCall("column_name", e, <<>>, <<>>)
       \/ \E e \in {x \in Exprs : ~HasKind(x, "WindowFunction")} :
              rex = RexCall("to_data_field", e, <<>>, <<>>)
       \/ \E e \in Exprs, f \in Closures : rex = RexCall("clone_with_replacement", e, f, <<>>)
       \/ \E e \in Exprs : rex = RexCall("unwrap_alias_exprs", e, <<>>, <<>>)
       \/ \E q \in Selects : rex = RexCall("select_to_plan", <<>>, <<>>, q)

RexNext ==
    \/ CallColumnName
    \/ CallResolve
    \/ CallCloneWithReplacement
    \/ CallUnwrapAliasExprs
    \/ CallSelectToPlan

SpecRex == RexInit /\ [][RexNext]_vars

(***************************************************************************)
(* Properties of the plan expressions.                                     *)
(***************************************************************************)
RexDone(op) == rex.pc = "done" /\ rex.op = op

RECURSIVE Reached(_, _)
\* The sub-expressions that the resolution `what` of e reaches when none
\* fails: a cast is typed without its operand, an operator or function
\* takes the fields of its arguments.
Reached(e, what) ==
    {e} \cup
    (CASE e.kind \in {"Alias", "Sort"} -> Reached(e.args[1], what)
       [] e.kind = "Cast" ->
             IF what = "data_type" THEN {} ELSE Reached(e.args[1], "nullable")
       [] OTHER -> UNION {Reached(e.args[i], "field") : i \in 1..Len(e.args)})

\* A node whose own resolution fails: a wildcard, a column the schema does
\* not have, an operator or function name that is not registered.
Unresolvable(e) ==
    \/ e.kind = "Wildcard"
    \/ e.kind = "Column" /\ ~(\E f \in InputSchema : f.name = e.name)
    \/ /\ e.kind \in {"UnaryExpression", "BinaryExpression", "ScalarFunction"}
       /\ IsNull(RegisteredCreator(op_to_lowercase(e.name)))

\* C22: static resolution returns no partial result with an error: on a
\* Wildcard to_data_type and nullable fail with IllegalDataType; to_data_field
\* returns a field exactly when type and nullability both resolve; a
\* wildcard, an unregistered name or a missing column in any sub-expression
\* that resolution reaches makes the whole call an error.
C22_ResolutionIsAllOrNothing ==
    RexDone("to_data_field")
        => /\ \A what \in {"data_type", "nullable", "field"} :
                 /\ rex.result[what].kind \in {"ok", "err"}
                 /\ rex.result[what].kind = "ok" <=> ~IsNull(rex.result[what].value)
                 /\ (\E sub \in Reached(rex.expr, what) : Unresolvable(sub))
                        => rex.result[what].kind = "err"
           /\ \A what \in {"data_type", "nullable"} :
                 \A i \in 1..Len(rex.expr.args) :
                    LET arg == to_data_field(rex.expr.args[i], InputSchema)
                    IN  (/\ rex.expr.kind \in {"UnaryExpression", "BinaryExpression",
                                               "ScalarFunction", "AggregateFunction"}
                         /\ arg.kind # "ok"
                         /\ \A j \in 1..(i - 1) :
                               to_data_field(rex.expr.args[j], InputSchema).kind = "ok")
                            => rex.result[what] = arg
           /\ rex.expr.kind = "Wildcard"
                 => /\ rex.result.data_type = ResErr("IllegalDataType")
                    /\ rex.result.nullable = ResErr("IllegalDataType")
           /\ rex.result.field.kind = "ok"
                 <=> (rex.result.data_type.kind = "ok" /\ rex.result.nullable.kind = "ok")
           /\ rex.result.field.kind = "ok"
                 => rex.result.field.value =
                        Some(DataField_new(column_name(rex.expr),
                                           Unwrap(rex.result.data_type.value),
                                           Unwrap(rex.result.nullable.value)))

\* A cast of a wildcard: typed by the cast, no nullability, so no field; and
\* a sum over a column the schema does not have.
C22_Witness ==
    /\ RexDone("to_data_field")
    /\ rex.expr = Cast(Wildcard, "Utf8")
    /\ rex.result.data_type = ResOk("Utf8")
    /\ rex.result.field = ResErr("IllegalDataType")
C22_MissingColumnWitness ==
    /\ RexDone("to_data_field")
    /\ rex.expr = BinaryExpression(Column("c"), "+", Column("a"))
    /\ rex.result.field = ResErr("UnknownColumn")

\* C23: column_name is the alias name for an Alias, `name()` for a
\* ScalarFunction only when its op is in the allow-list and it has no
\* arguments, and the debug rendering for every other expression.
C23_ColumnNameRendering ==
    RexDone("column_name")
        => rex.result =
              (CASE rex.expr.kind = "Alias" -> rex.expr.name
                 [] rex.expr.kind = "ScalarFunction" /\ rex.expr.name \in OP_SET
                    /\ rex.expr.args = <<>> -> rex.expr.name \o "()"
                 [] OTHER -> Debug(rex.expr))

\* The part of C23 the code keeps: every expression but an allow-listed
\* function that has arguments.
C23_HoldsOffAllowListedWithArguments ==
    ~(RexDone("column_name") /\ rex.expr.kind = "ScalarFunction"
      /\ op_to_lowercase(rex.expr.name) \in OP_SET /\ rex.expr.args # <<>>)
        => C23_ColumnNameRendering

\* ---- the traversal ----
IsProperPrefix(p, q) == Len(p) < Len(q) /\ SubSeq(q, 1, Len(p)) = p
RECURSIVE ValidPath(_, _)
ValidPath(e, path) ==
    \/ path = <<>>
    \/ path[1] \in 1..Len(e.args) /\ ValidPath(e.args[path[1]], Tail(path))
RECURSIVE NodeAt(_, _)
NodeAt(e, path) == IF path = <<>> THEN e ELSE NodeAt(e.args[path[1]], Tail(path))
\* The answer of the closure of the call in flight on the k-th node it was
\* called on.
AnswerAt(k) == replacement_fn(rex.f, rex.result.calls[k][2]).kind
CallPaths == {rex.result.calls[k][1] : k \in 1..Len(rex.result.calls)}

\* C27: clone_with_replacement tests a node before its children and stops
\* at a match: the replacement stands verbatim at that position, the
\* closure is called neither below a replaced node nor inside a
\* replacement, and an Err of the closure ends the traversal as its result.
C27_PreOrderStopAtMatch ==
    RexDone("clone_with_replacement")
        => LET calls == rex.result.calls
               n == Len(calls)
           IN  /\ n >= 1 /\ calls[1] = <<<<>>, rex.expr>>
               /\ \A k \in 1..n :
                     /\ ValidPath(rex.expr, calls[k][1])
                     /\ calls[k][2] = NodeAt(rex.expr, calls[k][1])
                     /\ \A j \in 1..n :
                           IsProperPrefix(calls[k][1], calls[j][1])
                               => (k < j /\ AnswerAt(k) = "None")
                     /\ (AnswerAt(k) = "Some" /\ rex.result.ok)
                           => NodeAt(Unwrap(rex.result.expr), calls[k][1])
                                  = rex.f.replacement
                     /\ AnswerAt(k) = "Err" => k = n
               /\ rex.result.ok <=> AnswerAt(n) # "Err"
               /\ ~rex.result.ok => IsNull(rex.result.expr)

\* A match below the root: (- (a as x)) with the alias replaced; and an Err
\* of the closure on the second child of a + after the first was replaced.
C27_Witness ==
    /\ RexDone("clone_with_replacement")
    /\ rex.expr = UnaryExpression("-", Alias("x", Column("a")))
    /\ rex.f = GenericFn({Alias("x", Column("a"))}, Column("r"), {})
    /\ rex.result.expr = Some(UnaryExpression("-", Column("r")))
    /\ Len(rex.result.calls) = 2
C27_ErrWitness ==
    /\ RexDone("clone_with_replacement")
    /\ rex.expr = BinaryExpression(Column("b"), "+", Column("a"))
    /\ Column("b") \in rex.f.errs
    /\ ~rex.result.ok
    /\ Len(rex.result.calls) = 2

\* C28: a node the closure answers None for is rebuilt with the same
\* operator and attributes from its rewritten children, for every kind that
\* has child expressions: each child is offered to the closure; with a
\* closure that always answers None the result equals the input.
C28_RebuiltFromRewrittenChildren ==
    (RexDone("clone_with_replacement") /\ rex.result.ok)
        => /\ \A k \in 1..Len(rex.result.calls) :
                 AnswerAt(k) = "None"
                     => LET path == rex.result.calls[k][1]
                            node == rex.result.calls[k][2]
                            rebuilt == NodeAt(Unwrap(rex.result.expr), path)
                        IN  /\ rebuilt.kind = node.kind
                            /\ rebuilt.name = node.name
                            /\ rebuilt.attr = node.attr
                            /\ Len(rebuilt.args) = Len(node.args)
                            /\ \A i \in 1..Len(node.args) : (path \o <<i>>) \in CallPaths
           /\ (rex.f.targets = {} /\ rex.f.errs = {})
                 => rex.result.expr = Some(rex.expr)

\* The part of C28 the code keeps: expressions without a WindowFunction.
C28_HoldsOffWindowFunction ==
    ~(RexDone("clone_with_replacement") /\ HasKind(rex.expr, "WindowFunction"))
        => C28_RebuiltFromRewrittenChildren

RECURSIVE AliasInsideAlias(_, _)
\* Whether an Alias occurs inside the inner expression of an Alias.
AliasInsideAlias(e, inside) ==
    \/ inside /\ e.kind = "Alias"
    \/ \E i \in 1..Len(e.args) : AliasInsideAlias(e.args[i], inside \/ e.kind = "Alias")

\* C30: unwrap_alias_exprs leaves no Alias at any depth, returns an
\* expression without aliases unchanged, and applied twice gives what it
\* gives applied once.
C30_NoAliasRemains ==
    RexDone("unwrap_alias_exprs")
        => /\ rex.result.once.ok
           /\ ~HasKind(Unwrap(rex.result.once.expr), "Alias")
           /\ ~HasKind(rex.expr, "Alias") => rex.result.once.expr = Some(rex.expr)
           /\ rex.result.twice.expr = rex.result.once.expr

\* The part of C30 the code keeps: no alias inside an alias, and none
\* below a window function.
C30_HoldsOffNestedAliases ==
    ~(RexDone("unwrap_alias_exprs")
      /\ (AliasInsideAlias(rex.expr, FALSE) \/ HasKind(rex.expr, "WindowFunction")))
        => C30_NoAliasRemains

RECURSIVE Uncovered(_, _)
\* The columns of e that are neither inside an aggregate function nor
\* inside (or equal to) one of the GROUP BY expressions.
Uncovered(e, group_by_exprs) ==
    IF contains(group_by_exprs, e) \/ e.kind = "AggregateFunction" THEN {}
    ELSE IF e.kind = "Column" THEN {e}
    ELSE UNION {Uncovered(e.args[i], group_by_exprs) : i \in 1..Len(e.args)}

\* C25: with an aggregate or a GROUP BY, select_to_plan fails with
\* IllegalAggregateExp exactly when a column of a projection, ORDER BY or
\* HAVING expression (aliases resolved) is neither inside an aggregate
\* function nor covered by a GROUP BY expression.
C25_IllegalAggregateExpIffUncovered ==
    (RexDone("select_to_plan") /\ rex.result.locals.has_aggr)
        => (rex.result.err = "IllegalAggregateExp"
              <=> \E i \in 1..Len(rex.result.locals.expression_exprs) :
                     Uncovered(rex.result.locals.expression_exprs[i],
                               rex.result.locals.group_by_exprs) # {})

\* The part of C25 the code keeps: no column carries the rendered name of
\* an aggregate or GROUP BY expression.
C25_HoldsOffRenderedNames ==
    ~(rex.pc = "done" /\ rex.op = "select_to_plan"
      /\ \E i \in 1..Len(rex.result.locals.expression_exprs) :
            \E c \in Uncovered(rex.result.locals.expression_exprs[i],
                               rex.result.locals.group_by_exprs) :
               \E b \in {rex.result.locals.group_by_exprs[j] :
                            j \in 1..Len(rex.result.locals.group_by_exprs)}
                        \cup {rex.result.locals.aggr_exprs[j] :
                                 j \in 1..Len(rex.result.locals.aggr_exprs)} :
                  column_name(b) = c.name)
        => C25_IllegalAggregateExpIffUncovered

====
